---------------------------- MODULE Spec2Model ----------------------------
(***************************************************************************)
(* Progress Pals: the derived statistics and the chart-domain derivation   *)
(* of the dashboard (DashboardClient), as a state machine.                 *)
(*                                                                         *)
(* Numbers.  A JavaScript number is modelled as a rational <<n, d>> in     *)
(* lowest terms with d > 0; Infinity is <<1, 0>>, NaN is <<0, 0>> and null *)
(* is <<-1, 0>>.  The variable arith says how a result is rounded:         *)
(*   "real"  - not at all (the expression's mathematical value);           *)
(*   "float" - to the nearest binary floating-point number with a mantissa *)
(*             of Prec bits, ties to even (IEEE 754 round-to-nearest; a    *)
(*             double has 53 bits, which the model checker's 32-bit        *)
(*             integers cannot hold, so the mantissa is Prec bits wide).   *)
(* Time is counted in ticks, TicksPerDay ticks to a day.                   *)
(***************************************************************************)
EXTENDS Integers, Sequences, FiniteSets

VARIABLES
  arith,                  \* "real" or "float": how results are rounded
  call,                   \* SpecBMI: the last call of a pure BMI function
  now,                    \* the wall clock (new Date()), in ticks
  profile,                \* props.profile: [height_cm, target_weight_kg]
  measurements,           \* props.measurements, newest first
  goals,                  \* props.goals
  historyCount,           \* useState(HISTORY_INITIAL_COUNT)
  showBMIZones,           \* useState(false)
  showGoalLine,           \* useState(false)
  showShortTermGoalLine,  \* useState(false)
  showFullHistory,        \* useState(false)
  db,                     \* the persistence layer's tables: [measurements, goals]
  calls,                  \* the handler invocations, in flight or finished
  form,                   \* the forms' useState: inputs and submitting flags
  session,                \* whether supabase.auth.getUser() finds a user
  profiles,               \* the user's rows of the profiles table (none or one)
  onboarding,             \* OnboardingPage: inputs, error, loading, position
  nav                     \* the last request and the middleware's answer

\* SpecAsync takes the handlers await by await; db, calls and form are its
\* state and stay idle elsewhere.
asyncVars == <<db, calls, form>>

\* SpecNav takes the middleware and the onboarding page; session, profiles,
\* onboarding and nav are its state and stay as they are elsewhere.
navVars == <<session, profiles, onboarding, nav>>

vars == <<arith, call, now, profile, measurements, goals, historyCount,
          showBMIZones, showGoalLine, showShortTermGoalLine, showFullHistory,
          asyncVars, navVars>>

dashVars == <<now, profile, measurements, goals, historyCount,
              showBMIZones, showGoalLine, showShortTermGoalLine, showFullHistory>>

\* null and NaN, kept apart from every number: their denominator is 0.
NULL == <<-1, 0>>
NaN == <<0, 0>>

\* useState("") / useState(false) of the two forms
\* and useState(null) of the two delete dialogs (0: no row)
EmptyForm ==
  [weightInput |-> "", submitting |-> FALSE,
   goalWeight |-> "", goalDeadline |-> <<>>, goalSubmitting |-> FALSE,
   deleteTarget |-> 0, deleteGoalTarget |-> 0]

\* No handler was invoked, nothing is typed, and the tables are not looked at.
\* useState("") for the inputs, useState(null) for the error, useState(false)
\* for loading; pc is the position of handleSubmit.
NoError == "null"
EmptyOnboarding ==
  [heightCm |-> "", targetWeightKg |-> "", error |-> NoError, loading |-> FALSE,
   pc |-> "idle", user |-> FALSE]

NoRequest ==
  [pathname |-> <<>>, user |-> FALSE, kind |-> "none", to |-> <<>>,
   lookup |-> FALSE, hops |-> 0, steady |-> TRUE]

Idle ==
  /\ db = [measurements |-> <<>>, goals |-> <<>>, seq |-> 0]
  /\ calls = {}
  /\ form = EmptyForm
  /\ session = TRUE
  /\ profiles = <<>>
  /\ onboarding = EmptyOnboarding
  /\ nav = NoRequest

\* Mantissa width of the floating-point arithmetic of the "float" mode.
Prec == 12

\* Clock ticks per day.
TicksPerDay == 2

-----------------------------------------------------------------------------
(* Rational arithmetic *)

Abs(a) == IF a < 0 THEN -a ELSE a

RECURSIVE GCD(_, _)
GCD(a, b) == IF b = 0 THEN a ELSE GCD(b, a % b)

RECURSIVE Pow2(_)
Pow2(k) == IF k = 0 THEN 1 ELSE 2 * Pow2(k - 1)

\* n/d in lowest terms with a positive denominator.
Norm(n, d) ==
  LET g == GCD(Abs(n), Abs(d))
      s == IF d < 0 THEN -1 ELSE 1
  IN <<s * (n \div g), s * (d \div g)>>

R(k) == <<k, 1>>
Infinity == <<1, 0>>
IsFinite(x) == x[2] # 0
IsNumber(x) == x[2] > 0

RNeg(x) == <<-x[1], x[2]>>

RAdd(x, y) ==
  IF ~IsFinite(x) THEN x
  ELSE IF ~IsFinite(y) THEN y
  ELSE LET g == GCD(x[2], y[2])
       IN Norm(x[1] * (y[2] \div g) + y[1] * (x[2] \div g), (x[2] \div g) * y[2])

RSub(x, y) == RAdd(x, RNeg(y))

RMul(x, y) ==
  LET g1 == GCD(Abs(x[1]), y[2])
      g2 == GCD(Abs(y[1]), x[2])
  IN Norm((x[1] \div g1) * (y[1] \div g2), (x[2] \div g2) * (y[2] \div g1))

\* x / y for y # 0.
RDiv(x, y) == RMul(x, Norm(y[2], y[1]))

RAbs(x) == <<Abs(x[1]), x[2]>>
RSign(x) == IF x[1] < 0 THEN -1 ELSE IF x[1] = 0 THEN 0 ELSE 1

\* Math.floor / Math.ceil of a finite number, as an integer.
MathFloor(x) == x[1] \div x[2]
MathCeil(x) == -((-x[1]) \div x[2])

\* x - Math.floor(x)
Frac(x) == <<x[1] % x[2], x[2]>>

\* x < y: by the integer parts, and by the fractional parts when those agree.
RLess(x, y) ==
  IF ~IsFinite(x) THEN FALSE
  ELSE IF ~IsFinite(y) THEN TRUE
  ELSE IF MathFloor(x) # MathFloor(y) THEN MathFloor(x) < MathFloor(y)
  ELSE RSign(RSub(Frac(x), Frac(y))) < 0

RLeq(x, y) == x = y \/ RLess(x, y)

\* Math.min / Math.max of two numbers.
MathMin(a, b) == IF RLess(b, a) THEN b ELSE a
MathMax(a, b) == IF RLess(a, b) THEN b ELSE a

-----------------------------------------------------------------------------
(* Binary floating point: round-to-nearest, ties to even, p-bit mantissa *)

\* The exponent e with 2^(p-1) <= x / 2^e < 2^p, for x > 0.
RECURSIVE Exponent(_, _, _)
Exponent(x, p, e) ==
  IF ~RLess(x, R(Pow2(p))) THEN Exponent(RDiv(x, R(2)), p, e + 1)
  ELSE IF RLess(x, R(Pow2(p - 1))) THEN Exponent(RMul(x, R(2)), p, e - 1)
  ELSE e

Scale2(x, e) == IF e >= 0 THEN RMul(x, R(Pow2(e))) ELSE RDiv(x, R(Pow2(-e)))

\* The integer nearest to x >= 0, ties to the even one.
RoundHalfEven(x) ==
  LET m == MathFloor(x)
      r == x[1] % x[2]            \* x = m + r / x[2]
  IN IF 2 * r > x[2] THEN m + 1
     ELSE IF 2 * r = x[2] THEN (IF m % 2 = 0 THEN m ELSE m + 1)
     ELSE m

RoundToFloat(x, p) ==
  IF ~IsFinite(x) \/ x[1] = 0 THEN x
  ELSE LET a == <<Abs(x[1]), x[2]>>
           e == Exponent(a, p, 0)
           m == RoundHalfEven(Scale2(a, -e))
           r == Scale2(R(m), e)
       IN IF x[1] < 0 THEN RNeg(r) ELSE r

\* The value a numeric operation returns for the exact result x.
fl(x) == IF arith = "float" THEN RoundToFloat(x, Prec) ELSE x

-----------------------------------------------------------------------------
(* The BMI functions *)

\* The height in metres not squared.
calculateBMI_NotSquared(weightKg, heightCm) ==
  LET heightM == fl(RDiv(heightCm, R(100)))
  IN fl(RDiv(weightKg, heightM))

calculateBMI(weightKg, heightCm) ==
  LET heightM == fl(RDiv(heightCm, R(100)))
  IN fl(RDiv(weightKg, fl(RMul(heightM, heightM))))

\* The thresholds compared with <= : a boundary value falls in the lower category.
getBMICategory_BoundaryLow(bmi) ==
  IF RLeq(bmi, <<37, 2>>) THEN "Underweight"
  ELSE IF RLeq(bmi, R(25)) THEN "Healthy"
  ELSE IF RLeq(bmi, R(30)) THEN "Overweight"
  ELSE "Obese"

getBMICategory(bmi) ==
  IF RLess(bmi, <<37, 2>>) THEN "Underweight"
  ELSE IF RLess(bmi, R(25)) THEN "Healthy"
  ELSE IF RLess(bmi, R(30)) THEN "Overweight"
  ELSE "Obese"

getBMIZoneBoundaries(heightCm) ==
  LET heightM == fl(RDiv(heightCm, R(100)))
      h2 == fl(RMul(heightM, heightM))
  IN [underweight |-> fl(RMul(<<37, 2>>, h2)),
      healthy |-> fl(RMul(R(25), h2)),
      overweight |-> fl(RMul(R(30), h2))]


-----------------------------------------------------------------------------
(* SpecBMI: the pure BMI functions applied to drawn inputs *)

MinHeightCm == 50
MaxHeightCm == 300
Heights == MinHeightCm..MaxHeightCm

\* BMI values in tenths, around and on the three thresholds.
BMITenths == 170..310
BMISamples == {Norm(k, 10) : k \in BMITenths}

\* Weights (kg) handed to calculateBMI.
SampleWeights == {R(20), R(70), <<107, 2>>, R(100), R(300)}

NoCall == [fn |-> "none"]

CallCalculateBMI ==
  /\ call.fn = "none"
  /\ \E w \in SampleWeights, h \in Heights :
       call' = [fn |-> "calculateBMI", weightKg |-> w, heightCm |-> R(h),
                out |-> calculateBMI(w, R(h))]
  /\ UNCHANGED <<arith, dashVars, asyncVars, navVars>>

\* Of a drawn BMI value, or of the BMI just calculated (as the BMI card does).
CallGetBMICategory ==
  /\ call.fn \in {"none", "calculateBMI"}
  /\ \E x \in (IF call.fn = "calculateBMI" THEN {call.out} ELSE BMISamples) :
       call' = [fn |-> "getBMICategory", bmi |-> x, out |-> getBMICategory(x)]
  /\ UNCHANGED <<arith, dashVars, asyncVars, navVars>>

CallGetBMIZoneBoundaries ==
  /\ call.fn = "none"
  /\ \E h \in Heights :
       call' = [fn |-> "getBMIZoneBoundaries", heightCm |-> R(h),
                out |-> getBMIZoneBoundaries(R(h))]
  /\ UNCHANGED <<arith, dashVars, asyncVars, navVars>>

\* Each boundary weight passed back through calculateBMI at the same height.
CallRoundTrip ==
  /\ call.fn = "getBMIZoneBoundaries"
  /\ call' = [fn |-> "roundTrip", heightCm |-> call.heightCm, zones |-> call.out,
              out |-> [underweight |-> calculateBMI(call.out.underweight, call.heightCm),
                       healthy |-> calculateBMI(call.out.healthy, call.heightCm),
                       overweight |-> calculateBMI(call.out.overweight, call.heightCm)]]
  /\ UNCHANGED <<arith, dashVars, asyncVars, navVars>>


-----------------------------------------------------------------------------
(* DashboardClient: values derived on every render *)

HISTORY_INITIAL_COUNT == 4

\* The chart's caps: the default one and the one used with a goal line toggled on.
ChartCapDefault == 50
ChartCapGoalLine == 25

Min(a, b) == IF a < b THEN a ELSE b

\* Array.prototype.slice(0, n)
Slice(s, n) == SubSeq(s, 1, Min(n, Len(s)))

\* [...s].reverse()
Reverse(s) == [i \in 1..Len(s) |-> s[Len(s) + 1 - i]]

\* new Date(goal.deadline): midnight of the deadline's day.
DeadlineTime(g) == g.deadline * TicksPerDay

visibleMeasurements == Slice(measurements, historyCount)
hasMore == Len(measurements) > historyCount

\* filter, then a stable sort by deadline, then [0] ?? null: the first goal of
\* the filtered list whose deadline is the least.
NoGoal == [target_weight_kg |-> NULL, deadline |-> 0, status |-> "null"]

\* The status left out of the filter.
upcomingShortTermGoal_AnyStatus ==
  LET open == SelectSeq(goals, LAMBDA g : DeadlineTime(g) >= now)
  IN IF Len(open) = 0 THEN NoGoal
     ELSE LET i == CHOOSE i \in 1..Len(open) :
                     /\ \A j \in 1..Len(open) : open[i].deadline <= open[j].deadline
                     /\ \A j \in 1..(i - 1) : open[j].deadline # open[i].deadline
          IN open[i]

upcomingShortTermGoal ==
  LET open == SelectSeq(goals, LAMBDA g : g.status # "achieved" /\ DeadlineTime(g) >= now)
  IN IF Len(open) = 0 THEN NoGoal
     ELSE LET i == CHOOSE i \in 1..Len(open) :
                     /\ \A j \in 1..Len(open) : open[i].deadline <= open[j].deadline
                     /\ \A j \in 1..(i - 1) : open[j].deadline # open[i].deadline
          IN open[i]

\* The last (oldest) element taken for the latest one.
latestWeightOf_Oldest(ms) == IF Len(ms) > 0 THEN ms[Len(ms)].weight_kg ELSE NULL

latestWeightOf(ms) == IF Len(ms) > 0 THEN ms[1].weight_kg ELSE NULL
latestWeight == latestWeightOf(measurements)
heightCm == IF profile.height_cm # NULL THEN profile.height_cm ELSE R(170)
targetWeightKg == profile.target_weight_kg

\* latestWeight ? calculateBMI(latestWeight, heightCm) : null
currentBMI ==
  IF latestWeight # NULL /\ latestWeight # R(0)
  THEN calculateBMI(latestWeight, heightCm)
  ELSE NULL

\* subDays(new Date(), 7)
sevenDaysAgo == now - 7 * TicksPerDay

\* The window's edge left out: > for >= .
measurementsLast7Days_Strict(ms) == SelectSeq(ms, LAMBDA m : m.created_at > sevenDaysAgo)

measurementsLast7Days(ms) == SelectSeq(ms, LAMBDA m : m.created_at >= sevenDaysAgo)

\* The difference taken the other way round: oldest minus newest.
trend_Reversed(ms) ==
  LET w == measurementsLast7Days(ms)
  IN IF Len(w) >= 2 THEN fl(RSub(w[Len(w)].weight_kg, w[1].weight_kg)) ELSE NULL

trend(ms) ==
  LET w == measurementsLast7Days(ms)
  IN IF Len(w) >= 2 THEN fl(RSub(w[1].weight_kg, w[Len(w)].weight_kg)) ELSE NULL

\* reduce((sum, m) => sum + m.weight_kg, 0) over the first n elements
RECURSIVE ReduceSum(_, _)
ReduceSum(w, n) == IF n = 0 THEN R(0) ELSE fl(RAdd(ReduceSum(w, n - 1), w[n].weight_kg))

\* The mean of the whole list instead of the 7-day window.
rollingAvg_WholeList(ms) ==
  IF Len(ms) > 0 THEN fl(RDiv(ReduceSum(ms, Len(ms)), R(Len(ms)))) ELSE NULL

\* The length guard forgotten: 0 / 0 is NaN, not null.
rollingAvg_NoGuard(ms) ==
  LET w == measurementsLast7Days(ms)
  IN IF Len(w) > 0 THEN fl(RDiv(ReduceSum(w, Len(w)), R(Len(w)))) ELSE NaN

rollingAvg(ms) ==
  LET w == measurementsLast7Days(ms)
  IN IF Len(w) > 0 THEN fl(RDiv(ReduceSum(w, Len(w)), R(Len(w)))) ELSE NULL

bmiZones == getBMIZoneBoundaries(heightCm)

\* The short-term goal line toggle forgotten in the cap.
chartLimit_LongTermOnly ==
  IF showFullHistory THEN Len(measurements)
  ELSE IF showGoalLine THEN ChartCapGoalLine
  ELSE ChartCapDefault

chartLimit ==
  IF showFullHistory THEN Len(measurements)
  ELSE IF showGoalLine \/ showShortTermGoalLine THEN ChartCapGoalLine
  ELSE ChartCapDefault

chartMeasurements == IF showFullHistory THEN measurements ELSE Slice(measurements, chartLimit)

chartData ==
  LET r == Reverse(chartMeasurements)
  IN [i \in 1..Len(r) |-> [date |-> r[i].created_at \div TicksPerDay,
                           weight |-> r[i].weight_kg,
                           fullDate |-> r[i].created_at]]

\* Math.min(...xs) / Math.max(...xs) of a non-empty collection of numbers
MathMinOf(xs) == CHOOSE x \in xs : \A y \in xs : ~RLess(y, x)
MathMaxOf(xs) == CHOOSE x \in xs : \A y \in xs : ~RLess(x, y)

\* chartData.map((d) => d.weight)
chartWeights == LET d == chartData IN {d[i].weight : i \in 1..Len(d)}

weightMin == IF Len(chartData) > 0 THEN MathMinOf(chartWeights) ELSE R(0)
\* The newest point's weight taken for the greatest.
weightMax_Newest ==
  IF Len(chartData) > 0 THEN chartData[Len(chartData)].weight ELSE R(100)

weightMax == IF Len(chartData) > 0 THEN MathMaxOf(chartWeights) ELSE R(100)

effectiveMin ==
  LET a == fl(RSub(weightMin, R(2)))
      b == IF showBMIZones THEN fl(RSub(bmiZones.underweight, R(5))) ELSE Infinity
      c == IF showGoalLine /\ targetWeightKg # NULL
           THEN fl(RSub(targetWeightKg, R(5))) ELSE Infinity
      d == IF showShortTermGoalLine /\ upcomingShortTermGoal # NoGoal
           THEN fl(RSub(upcomingShortTermGoal.target_weight_kg, R(5))) ELSE Infinity
  IN MathMin(MathMin(MathMin(a, b), c), d)

\* The short-term goal line left out of the upper bound.
effectiveMax_NoShortTerm ==
  LET a == fl(RAdd(weightMax, R(5)))
      c == IF showGoalLine /\ targetWeightKg # NULL
           THEN fl(RAdd(targetWeightKg, R(5))) ELSE R(0)
  IN MathMax(a, c)

effectiveMax ==
  LET a == fl(RAdd(weightMax, R(5)))
      c == IF showGoalLine /\ targetWeightKg # NULL
           THEN fl(RAdd(targetWeightKg, R(5))) ELSE R(0)
      d == IF showShortTermGoalLine /\ upcomingShortTermGoal # NoGoal
           THEN fl(RAdd(upcomingShortTermGoal.target_weight_kg, R(5))) ELSE R(0)
  IN MathMax(MathMax(a, c), d)

yDomainMin == effectiveMin
yDomainMax == effectiveMax

\* for (let kg = min; kg <= max; kg += 5) ticks.push(kg)
\* The loop stopping one step early: kg < max.
RECURSIVE TickLoop_Exclusive(_, _)
TickLoop_Exclusive(kg, max) ==
  IF kg < max THEN <<kg>> \o TickLoop_Exclusive(kg + 5, max) ELSE <<>>

RECURSIVE TickLoop(_, _)
TickLoop(kg, max) == IF kg <= max THEN <<kg>> \o TickLoop(kg + 5, max) ELSE <<>>

yTicks ==
  LET min == MathFloor(fl(RDiv(yDomainMin, R(5)))) * 5
      max == MathCeil(fl(RDiv(yDomainMax, R(5)))) * 5
  IN TickLoop(min, max)


-----------------------------------------------------------------------------
(* DashboardClient: the goal rows (goals.map), computed on every render *)

\* The chart card is rendered only with a non-empty series.
chartRendered == Len(chartData) > 0

\* date-fns differenceInDays: the number of full days from the instant b to the
\* instant a, truncated towards zero.
differenceInDays(a, b) ==
  IF a >= b THEN (a - b) \div TicksPerDay ELSE -((b - a) \div TicksPerDay)

\* The target alone decides, whatever the persisted status says.
isAchieved_WeightOnly(goal) ==
  latestWeight # NULL /\ RLeq(latestWeight, goal.target_weight_kg)

isAchieved(goal) ==
  \/ goal.status = "achieved"
  \/ latestWeight # NULL /\ RLeq(latestWeight, goal.target_weight_kg)

daysRemaining(goal) ==
  LET d == differenceInDays(DeadlineTime(goal), now)
  IN IF d > 0 THEN d ELSE 0

\* The floor constant forgotten: Math.max(daysRemaining / 7, 0).
weeksRemaining_NoFloor(goal) ==
  MathMax(fl(RDiv(R(daysRemaining(goal)), R(7))), R(0))

weeksRemaining(goal) ==
  MathMax(fl(RDiv(R(daysRemaining(goal)), R(7))), <<1, 100>>)

kgToLose(goal) ==
  IF latestWeight # NULL
  THEN fl(RSub(latestWeight, goal.target_weight_kg))
  ELSE goal.target_weight_kg

kgPerWeek(goal) == fl(RDiv(kgToLose(goal), weeksRemaining(goal)))

\* >= for > : a rate of exactly 1 flagged too.
isAmbitious_AtLeast(goal) == RLeq(R(1), kgPerWeek(goal))

isAmbitious(goal) == RLess(R(1), kgPerWeek(goal))

\* The pace shown for every goal, achieved or not, with or without a weight.
goalRow_PaceAlways(goal) ==
  [achievedBadge |-> isAchieved(goal),
   daysShown |-> IF isAchieved(goal) THEN 0 ELSE daysRemaining(goal),
   paceShown |-> TRUE,
   realism |-> kgPerWeek(goal),
   ambitiousShown |-> isAmbitious(goal)]

\* What a goal's row shows: the badge, the days remaining, the "Realism" pace
\* (absent: NULL) and the "Ambitious" warning.
goalRow(goal) ==
  LET shown == ~isAchieved(goal) /\ latestWeight # NULL
  IN [achievedBadge |-> isAchieved(goal),
      daysShown |-> IF isAchieved(goal) THEN 0 ELSE daysRemaining(goal),
      paceShown |-> shown,
      realism |-> IF shown THEN kgPerWeek(goal) ELSE NULL,
      ambitiousShown |-> shown /\ isAmbitious(goal)]

\* The "Active Goals" card: a row per goal; the card is absent without goals.
goalRows == [i \in 1..Len(goals) |-> goalRow(goals[i])]


-----------------------------------------------------------------------------
(* DashboardClient: the handlers *)

\* The clock stops at MaxNow.  Every persistence round trip takes one tick; an
\* inserted row is stamped (created_at defaults to the database's now()) at its end.
MaxNow == 1
\* The history list is extended up to MaxHistoryCount rows.
MaxHistoryCount == 8
\* At most MaxGoals goals are kept.
MaxGoals == 2

\* Texts typed into the weight and goal inputs, and what parseFloat makes of them.
WeightTexts == {"abc", "19.9", "70", "300", "300.1"}
GoalTexts == {"", "95", "300.1"}

\* The date input: empty, or a day counted from today.
DeadlineInputs == {<<>>, <<0>>}

parseFloat(text) ==
  CASE text = "19.9" -> <<199, 10>>
    [] text = "70" -> R(70)
    [] text = "95" -> R(95)
    [] text = "300" -> R(300)
    [] text = "300.1" -> <<3001, 10>>
    [] OTHER -> NaN

\* The upper bound forgotten: isNaN(weight) || weight < 20
Rejected_NoUpperBound(weight) == weight = NaN \/ RLess(weight, R(20))

\* isNaN(weight) || weight < 20 || weight > 300
Rejected(weight) == weight = NaN \/ RLess(weight, R(20)) \/ RLess(R(300), weight)

today == now \div TicksPerDay
\* date-fns addMonths, on day numbers, with months of 30 days
addMonths(day, n) == day + 30 * n

\* goals.filter(g => g.status !== "achieved" && weight <= g.target_weight_kg),
\* each then updated to "achieved"
MarkAchieved(gs, weight) ==
  [i \in 1..Len(gs) |->
     IF gs[i].status # "achieved" /\ RLeq(weight, gs[i].target_weight_kg)
     THEN [gs[i] EXCEPT !.status = "achieved"]
     ELSE gs[i]]

RemoveAt(s, i) == SubSeq(s, 1, i - 1) \o SubSeq(s, i + 1, Len(s))

handleAddWeight ==
  \E weightInput \in WeightTexts, error \in BOOLEAN :
    LET weight == parseFloat(weightInput) IN
    IF Rejected(weight) THEN UNCHANGED vars
    ELSE /\ now < MaxNow
         /\ now' = now + 1
         /\ IF error THEN UNCHANGED <<measurements, goals>>
            ELSE /\ measurements' =
                      <<[weight_kg |-> weight, created_at |-> now + 1]>> \o measurements
                 /\ goals' = MarkAchieved(goals, weight)
         /\ UNCHANGED <<arith, call, asyncVars, navVars, profile, historyCount, showBMIZones,
                        showGoalLine, showShortTermGoalLine, showFullHistory>>

handleAddGoal ==
  \E goalWeight \in GoalTexts, goalDeadline \in DeadlineInputs, error \in BOOLEAN :
    LET weight == parseFloat(goalWeight)
        deadline == IF goalDeadline # <<>> THEN today + goalDeadline[1]
                    ELSE addMonths(today, 2)
    IN
    IF Rejected(weight) THEN UNCHANGED vars
    ELSE /\ now < MaxNow
         /\ Len(goals) < MaxGoals
         /\ now' = now + 1
         /\ IF error THEN UNCHANGED goals
            ELSE goals' = Append(goals, [target_weight_kg |-> weight,
                                         deadline |-> deadline,
                                         status |-> "active"])
         /\ UNCHANGED <<arith, call, asyncVars, navVars, profile, measurements, historyCount, showBMIZones,
                        showGoalLine, showShortTermGoalLine, showFullHistory>>

\* The delete button of a row of the history list (visibleMeasurements).
handleDelete ==
  \E i \in 1..Len(visibleMeasurements) :
    /\ now < MaxNow
    /\ now' = now + 1
    /\ measurements' = RemoveAt(measurements, i)
    /\ UNCHANGED <<arith, call, asyncVars, navVars, profile, goals, historyCount, showBMIZones,
                   showGoalLine, showShortTermGoalLine, showFullHistory>>

handleDeleteGoal ==
  \E i \in 1..Len(goals) :
    /\ now < MaxNow
    /\ now' = now + 1
    /\ goals' = RemoveAt(goals, i)
    /\ UNCHANGED <<arith, call, asyncVars, navVars, profile, measurements, historyCount, showBMIZones,
                   showGoalLine, showShortTermGoalLine, showFullHistory>>

\* "Load more" of the history list
LoadMore ==
  /\ hasMore
  /\ historyCount + HISTORY_INITIAL_COUNT <= MaxHistoryCount
  /\ historyCount' = historyCount + HISTORY_INITIAL_COUNT
  /\ UNCHANGED <<arith, call, asyncVars, navVars, now, profile, measurements, goals, showBMIZones,
                 showGoalLine, showShortTermGoalLine, showFullHistory>>

ToggleBMIZones ==
  /\ showBMIZones' = ~showBMIZones
  /\ UNCHANGED <<arith, call, asyncVars, navVars, now, profile, measurements, goals, historyCount,
                 showGoalLine, showShortTermGoalLine, showFullHistory>>

\* The checkbox is rendered only with a long-term target.
ToggleGoalLine ==
  /\ targetWeightKg # NULL
  /\ showGoalLine' = ~showGoalLine
  /\ UNCHANGED <<arith, call, asyncVars, navVars, now, profile, measurements, goals, historyCount,
                 showBMIZones, showShortTermGoalLine, showFullHistory>>

\* The checkbox is rendered only with an upcoming short-term goal.
ToggleShortTermGoalLine ==
  /\ upcomingShortTermGoal # NoGoal
  /\ showShortTermGoalLine' = ~showShortTermGoalLine
  /\ UNCHANGED <<arith, call, asyncVars, navVars, now, profile, measurements, goals, historyCount,
                 showBMIZones, showGoalLine, showFullHistory>>

\* The checkbox lives in the chart card, rendered only with a non-empty series.
ToggleFullHistory ==
  /\ Len(chartData) > 0
  /\ showFullHistory' = ~showFullHistory
  /\ UNCHANGED <<arith, call, asyncVars, navVars, now, profile, measurements, goals, historyCount,
                 showBMIZones, showGoalLine, showShortTermGoalLine>>

\* Time passes; the next render reads the clock again.
Tick ==
  /\ now < MaxNow
  /\ now' = now + 1
  /\ UNCHANGED <<arith, call, asyncVars, navVars, profile, measurements, goals, historyCount,
                 showBMIZones, showGoalLine, showShortTermGoalLine, showFullHistory>>


-----------------------------------------------------------------------------
(* DashboardClient: the handlers, await by await (SpecAsync)               *)
(*                                                                         *)
(* A handler invocation is a record of calls: its function fn, the await   *)
(* it stands at (pc), the values its closure captured (goals, latestWeight)*)
(* and what it did: ok ("rejected": it returned at the validation; else    *)
(* the result of its insert or delete), updated (the goals it sent an      *)
(* update for, in order), confetti and refresh ("none", "timer": setTimeout*)
(* pending, "done": router.refresh() called).                              *)
(* router.refresh() refetches: the props become the tables.                *)

\* At most MaxCalls handler invocations are followed.
MaxCalls == 1

restVars == <<arith, call, now, profile, historyCount, showBMIZones,
              showGoalLine, showShortTermGoalLine, showFullHistory, navVars>>

NewCall(fn, weight, arg) ==
  [id |-> Cardinality(calls) + 1, fn |-> fn, pc |-> "await",
   weight |-> weight, arg |-> arg,
   goals |-> goals, latestWeight |-> latestWeight,
   ok |-> "pending", todo |-> <<>>, updated |-> <<>>,
   confetti |-> FALSE, refresh |-> "none"]

Replace(c, d) == (calls \ {c}) \cup {d}

\* The check for achieved goals left out.
achievedGoals_None(gs, weight) == SelectSeq(gs, LAMBDA g : FALSE)

\* The goals below the weight taken for the achieved ones: weight >= target.
achievedGoals_Reversed(gs, weight) ==
  SelectSeq(gs, LAMBDA g : g.status # "achieved" /\ RLeq(g.target_weight_kg, weight))

\* goals.filter((g) => g.status !== "achieved" && weight <= g.target_weight_kg)
achievedGoals(gs, weight) ==
  SelectSeq(gs, LAMBDA g : g.status # "achieved" /\ RLeq(weight, g.target_weight_kg))

Ids(rows) == [i \in 1..Len(rows) |-> rows[i].id]

\* The update without its filter on the id, the other goals set back to active.
UpdateAchieved_ResetsOthers(rows, id) ==
  [i \in 1..Len(rows) |->
     [rows[i] EXCEPT !.status = IF rows[i].id = id THEN "achieved" ELSE "active"]]

\* update({ status: "achieved" }).eq("id", id)
UpdateAchieved(rows, id) ==
  [i \in 1..Len(rows) |->
     IF rows[i].id = id THEN [rows[i] EXCEPT !.status = "achieved"] ELSE rows[i]]

\* delete().eq("id", id)
DeleteRow(rows, id) == SelectSeq(rows, LAMBDA r : r.id # id)

\* The form is submitted with the text typed into it; a text that does not
\* parse to a weight in range returns before anything is set or sent.
handleAddWeight_Submit ==
  \E weightInput \in WeightTexts :
    LET weight == parseFloat(weightInput) IN
    /\ ~form.submitting
    /\ Cardinality(calls) < MaxCalls
    /\ IF Rejected(weight)
       THEN /\ form' = [form EXCEPT !.weightInput = weightInput]
            /\ calls' = calls \cup {[NewCall("handleAddWeight", weight, 0)
                                       EXCEPT !.pc = "done", !.ok = "rejected"]}
       ELSE /\ form' = [form EXCEPT !.weightInput = weightInput, !.submitting = TRUE]
            /\ calls' = calls \cup {NewCall("handleAddWeight", weight, 0)}
    /\ UNCHANGED <<db, measurements, goals, restVars>>

\* router.refresh(): the server component is fetched again
Refresh == measurements' = db'.measurements /\ goals' = db'.goals

\* The input left as it was: setSubmitting(false) only.
ResetWeightForm_KeepsInput == form' = [form EXCEPT !.submitting = FALSE]

\* setSubmitting(false); setWeightInput("")
ResetWeightForm == form' = [form EXCEPT !.submitting = FALSE, !.weightInput = ""]

\* The insert has returned: the form is reset; on an error the handler returns,
\* otherwise it starts the updates of the achieved goals, or goes for the
\* confetti (the weight went down), or refreshes.
handleAddWeight_Inserted ==
  \E c \in calls, error \in BOOLEAN :
    /\ c.fn = "handleAddWeight" /\ c.pc = "await"
    /\ ResetWeightForm
    /\ IF error
       THEN /\ calls' = Replace(c, [c EXCEPT !.pc = "done", !.ok = "error"])
            /\ UNCHANGED <<db, measurements, goals>>
       ELSE LET row == [id |-> db.seq + 1, weight_kg |-> c.weight,
                        created_at |-> now + db.seq + 1]
                achieved == achievedGoals(c.goals, c.weight)
            IN /\ db' = [db EXCEPT !.measurements = <<row>> \o @, !.seq = @ + 1]
               /\ IF Len(achieved) > 0
                  THEN /\ calls' = Replace(c, [c EXCEPT !.pc = "update", !.ok = "ok",
                                                        !.todo = Ids(achieved)])
                       /\ UNCHANGED <<measurements, goals>>
                  ELSE IF c.latestWeight # NULL /\ RLess(c.weight, c.latestWeight)
                  THEN /\ calls' = Replace(c, [c EXCEPT !.pc = "import", !.ok = "ok"])
                       /\ UNCHANGED <<measurements, goals>>
                  ELSE /\ calls' = Replace(c, [c EXCEPT !.pc = "done", !.ok = "ok",
                                                        !.refresh = "done"])
                       /\ Refresh
    /\ UNCHANGED restVars

\* for (const g of achievedGoals) await ...update({ status: "achieved" }).eq("id", g.id):
\* the update of the first goal left has returned (its result is not looked at).
handleAddWeight_Updated ==
  \E c \in calls, error \in BOOLEAN :
    /\ c.fn = "handleAddWeight" /\ c.pc = "update"
    /\ db' = IF error THEN db
             ELSE [db EXCEPT !.goals = UpdateAchieved(@, Head(c.todo))]
    /\ calls' = Replace(c, [c EXCEPT !.updated = Append(@, Head(c.todo)),
                                     !.todo = Tail(@),
                                     !.pc = IF Len(c.todo) > 1 THEN "update" ELSE "import"])
    /\ UNCHANGED <<form, measurements, goals, restVars>>

\* The delayed refresh forgotten after the confetti.
handleAddWeight_Imported_NoTimer ==
  \E c \in calls :
    /\ c.fn = "handleAddWeight" /\ c.pc = "import"
    /\ calls' = Replace(c, [c EXCEPT !.pc = "done", !.confetti = TRUE])
    /\ UNCHANGED <<db, form, measurements, goals, restVars>>

\* await import("canvas-confetti") has resolved: confetti(...) and
\* setTimeout(() => router.refresh(), 800)
handleAddWeight_Imported ==
  \E c \in calls :
    /\ c.fn = "handleAddWeight" /\ c.pc = "import"
    /\ calls' = Replace(c, [c EXCEPT !.pc = "done", !.confetti = TRUE,
                                     !.refresh = "timer"])
    /\ UNCHANGED <<db, form, measurements, goals, restVars>>

\* The 800 ms are over: router.refresh()
RefreshTimer ==
  \E c \in calls :
    /\ c.refresh = "timer"
    /\ calls' = Replace(c, [c EXCEPT !.refresh = "done"])
    /\ UNCHANGED db
    /\ Refresh
    /\ UNCHANGED <<form, restVars>>

handleAddGoal_Submit ==
  \E goalWeight \in GoalTexts, goalDeadline \in DeadlineInputs :
    LET weight == parseFloat(goalWeight)
        deadline == IF goalDeadline # <<>> THEN today + goalDeadline[1]
                    ELSE addMonths(today, 2)
    IN
    /\ ~form.goalSubmitting
    /\ Cardinality(calls) < MaxCalls
    /\ IF Rejected(weight)
       THEN /\ form' = [form EXCEPT !.goalWeight = goalWeight,
                                    !.goalDeadline = goalDeadline]
            /\ calls' = calls \cup {[NewCall("handleAddGoal", weight, deadline)
                                       EXCEPT !.pc = "done", !.ok = "rejected"]}
       ELSE /\ form' = [form EXCEPT !.goalWeight = goalWeight,
                                    !.goalDeadline = goalDeadline,
                                    !.goalSubmitting = TRUE]
            /\ calls' = calls \cup {NewCall("handleAddGoal", weight, deadline)}
    /\ UNCHANGED <<db, measurements, goals, restVars>>

handleAddGoal_Inserted ==
  \E c \in calls, error \in BOOLEAN :
    /\ c.fn = "handleAddGoal" /\ c.pc = "await"
    /\ form' = [form EXCEPT !.goalSubmitting = FALSE, !.goalWeight = "",
                            !.goalDeadline = <<>>]
    /\ IF error
       THEN /\ calls' = Replace(c, [c EXCEPT !.pc = "done", !.ok = "error"])
            /\ UNCHANGED <<db, measurements, goals>>
       ELSE /\ db' = [db EXCEPT !.goals = Append(@, [id |-> db.seq + 1,
                                                     target_weight_kg |-> c.weight,
                                                     deadline |-> c.arg,
                                                     status |-> "active"]),
                                !.seq = @ + 1]
            /\ calls' = Replace(c, [c EXCEPT !.pc = "done", !.ok = "ok",
                                             !.refresh = "done"])
            /\ Refresh
    /\ UNCHANGED restVars

\* The trash button of a row of the history list opens the dialog on it.
AskDelete ==
  \E i \in 1..Len(visibleMeasurements) :
    /\ form.deleteTarget = 0
    /\ Cardinality(calls) < MaxCalls
    /\ form' = [form EXCEPT !.deleteTarget = visibleMeasurements[i].id]
    /\ UNCHANGED <<db, calls, measurements, goals, restVars>>

\* The dialog's Delete button: handleDelete(deleteTarget.id)
handleDelete_Confirm ==
  /\ form.deleteTarget # 0
  /\ Cardinality(calls) < MaxCalls
  /\ calls' = calls \cup {NewCall("handleDelete", NULL, form.deleteTarget)}
  /\ UNCHANGED <<db, form, measurements, goals, restVars>>

\* The delete has returned (its result is not looked at): the dialog is closed
\* and the page refreshed.
handleDelete_Deleted ==
  \E c \in calls, error \in BOOLEAN :
    /\ c.fn = "handleDelete" /\ c.pc = "await"
    /\ db' = IF error THEN db
             ELSE [db EXCEPT !.measurements = DeleteRow(@, c.arg)]
    /\ form' = [form EXCEPT !.deleteTarget = 0]
    /\ calls' = Replace(c, [c EXCEPT !.pc = "done",
                                     !.ok = IF error THEN "error" ELSE "ok",
                                     !.refresh = "done"])
    /\ Refresh
    /\ UNCHANGED restVars

AskDeleteGoal ==
  \E i \in 1..Len(goals) :
    /\ form.deleteGoalTarget = 0
    /\ Cardinality(calls) < MaxCalls
    /\ form' = [form EXCEPT !.deleteGoalTarget = goals[i].id]
    /\ UNCHANGED <<db, calls, measurements, goals, restVars>>

handleDeleteGoal_Confirm ==
  /\ form.deleteGoalTarget # 0
  /\ Cardinality(calls) < MaxCalls
  /\ calls' = calls \cup {NewCall("handleDeleteGoal", NULL, form.deleteGoalTarget)}
  /\ UNCHANGED <<db, form, measurements, goals, restVars>>

handleDeleteGoal_Deleted ==
  \E c \in calls, error \in BOOLEAN :
    /\ c.fn = "handleDeleteGoal" /\ c.pc = "await"
    /\ db' = IF error THEN db
             ELSE [db EXCEPT !.goals = DeleteRow(@, c.arg)]
    /\ form' = [form EXCEPT !.deleteGoalTarget = 0]
    /\ calls' = Replace(c, [c EXCEPT !.pc = "done",
                                     !.ok = IF error THEN "error" ELSE "ok",
                                     !.refresh = "done"])
    /\ Refresh
    /\ UNCHANGED restVars

-----------------------------------------------------------------------------
(* The middleware and the onboarding page (SpecNav)                        *)
(*                                                                         *)
(* A pathname is the sequence of its characters.  nav is the last request: *)
(* its pathname, whether getUser() found a user, and the middleware's      *)
(* answer: kind "next" (the page at `to` is served) or "redirect" (to `to`)*)
(* and whether the profiles table was looked up.                           *)
(* A request is made between two submissions of the onboarding form, not   *)
(* during one; the session may end at any moment.                          *)

PathRoot == <<"/">>
PathLogin == <<"/", "l", "o", "g", "i", "n">>
PathRegister == <<"/", "r", "e", "g", "i", "s", "t", "e", "r">>
PathAuthCallback ==
  <<"/", "a", "u", "t", "h", "/", "c", "a", "l", "l", "b", "a", "c", "k">>
PathOnboarding == <<"/", "o", "n", "b", "o", "a", "r", "d", "i", "n", "g">>
PathResetPassword ==
  <<"/", "r", "e", "s", "e", "t", "-", "p", "a", "s", "s", "w", "o", "r", "d">>

\* "/login" left out of the public routes.
PUBLIC_ROUTES_NoLogin == {PathRegister, PathAuthCallback}

PUBLIC_ROUTES == {PathLogin, PathRegister, PathAuthCallback}

\* "/auth/callback" taken for a route of the signed-out pages as well.
AUTH_ROUTES_WithCallback == {PathLogin, PathRegister, PathAuthCallback}

AUTH_ROUTES == {PathLogin, PathRegister}

\* The pathnames requested: the routes, a sub-path of one, a longer name that
\* begins with a route's name, and a page of the application.
Pathnames ==
  {PathRoot, PathLogin, PathRegister, PathAuthCallback, PathOnboarding,
   PathResetPassword,
   PathLogin \o <<"/", "x">>,
   PathLogin \o <<"-", "h", "e", "l", "p">>,
   PathRegister \o <<"e", "d">>,
   <<"/", "s", "e", "t", "t", "i", "n", "g", "s">>}

\* String.prototype.startsWith
startsWith(pathname, route) ==
  /\ Len(route) <= Len(pathname)
  /\ SubSeq(pathname, 1, Len(route)) = route

\* middleware(request): user is whether getUser() found one, rows the rows
\* that from("profiles").select("id").eq("id", user.id) finds.
middleware(pathname, user, rows) ==
  IF \E route \in PUBLIC_ROUTES : startsWith(pathname, route)
  THEN IF user /\ \E route \in AUTH_ROUTES : startsWith(pathname, route)
       THEN [kind |-> "redirect", to |-> PathRoot, lookup |-> FALSE]
       ELSE [kind |-> "next", to |-> pathname, lookup |-> FALSE]
  ELSE IF ~user
  THEN [kind |-> "redirect", to |-> PathLogin, lookup |-> FALSE]
  ELSE IF pathname = PathResetPassword
  THEN [kind |-> "next", to |-> pathname, lookup |-> FALSE]
  ELSE IF Len(rows) = 0 /\ pathname # PathOnboarding
  THEN [kind |-> "redirect", to |-> PathOnboarding, lookup |-> TRUE]
  ELSE [kind |-> "next", to |-> pathname, lookup |-> TRUE]

\* A chain of redirects is followed for at most MaxHops requests.
MaxHops == 4

\* The request for pathname as the middleware answers it in the next state.
\* hops counts the redirects followed since the browser asked for a page;
\* steady says that every request of that chain found the same user.
Answer(pathname, hops, steady) ==
  LET a == middleware(pathname, session', profiles') IN
  nav' = [pathname |-> pathname, user |-> session', kind |-> a.kind,
          to |-> a.to, lookup |-> a.lookup, hops |-> hops, steady |-> steady]

Shown(pathname) == nav.kind = "next" /\ nav.to = pathname

\* The browser asks for a page; the page it leaves loses its state.
Request ==
  /\ onboarding.pc = "idle"
  /\ UNCHANGED <<session, profiles>>
  /\ \E pathname \in Pathnames : Answer(pathname, 0, TRUE)
  /\ onboarding' = EmptyOnboarding
  /\ UNCHANGED <<arith, call, dashVars, asyncVars>>

\* The browser follows a redirect.
FollowRedirect ==
  /\ nav.kind = "redirect"
  /\ nav.hops < MaxHops
  /\ onboarding.pc = "idle"
  /\ UNCHANGED <<session, profiles>>
  /\ Answer(nav.to, nav.hops + 1, nav.steady /\ session = nav.user)
  /\ onboarding' = EmptyOnboarding
  /\ UNCHANGED <<arith, call, dashVars, asyncVars>>

\* The login page's handleSubmit, signInWithPassword without an error:
\* window.location.href = "/"
SignIn ==
  /\ Shown(PathLogin)
  /\ ~session
  /\ session' = TRUE
  /\ UNCHANGED profiles
  /\ Answer(PathRoot, 0, TRUE)
  /\ UNCHANGED <<onboarding, arith, call, dashVars, asyncVars>>

\* handleSignOut: signOut(), router.push("/login")
handleSignOut ==
  /\ Shown(PathRoot)
  /\ session' = FALSE
  /\ UNCHANGED profiles
  /\ Answer(PathLogin, 0, TRUE)
  /\ UNCHANGED <<onboarding, arith, call, dashVars, asyncVars>>

\* The session ends (it expires, or is ended in another tab).
SessionEnds ==
  /\ session
  /\ session' = FALSE
  /\ UNCHANGED <<profiles, onboarding, nav, arith, call, dashVars, asyncVars>>

\* The texts of the two number inputs, and what Number makes of them.
HeightTexts == {"", "49", "50", "300", "301"}
TargetTexts == {"", "19.9", "20", "300", "300.1"}

Number(text) ==
  CASE text = "" -> R(0)
    [] text = "19.9" -> <<199, 10>>
    [] text = "20" -> R(20)
    [] text = "49" -> R(49)
    [] text = "50" -> R(50)
    [] text = "300" -> R(300)
    [] text = "300.1" -> <<3001, 10>>
    [] text = "301" -> R(301)
    [] OTHER -> NaN

\* isNaN(height) || height < 50 || height > 300
HeightRejected(height) ==
  \/ height = NaN
  \/ RLess(height, R(MinHeightCm))
  \/ RLess(R(MaxHeightCm), height)

\* The lower bound left out: isNaN(targetWeight) || targetWeight > 300
TargetWeightRejected_NoLowerBound(targetWeight) ==
  targetWeight = NaN \/ RLess(R(300), targetWeight)

\* isNaN(targetWeight) || targetWeight < 20 || targetWeight > 300
TargetWeightRejected(targetWeight) ==
  \/ targetWeight = NaN
  \/ RLess(targetWeight, R(20))
  \/ RLess(R(300), targetWeight)

\* handleSubmit up to its first await: setError(null), setLoading(true),
\* getUser() called.  The button is disabled while loading.
handleSubmit_Start ==
  /\ Shown(PathOnboarding)
  /\ ~onboarding.loading
  /\ \E typedHeight \in HeightTexts, typedTarget \in TargetTexts :
       onboarding' = [heightCm |-> typedHeight, targetWeightKg |-> typedTarget,
                      error |-> NoError, loading |-> TRUE, pc |-> "getUser",
                      user |-> FALSE]
  /\ UNCHANGED <<session, profiles, nav, arith, call, dashVars, asyncVars>>

\* handleSubmit after getUser(): the three checks, then the insert is sent.
handleSubmit_GotUser ==
  /\ onboarding.pc = "getUser"
  /\ LET user == session
         height == Number(onboarding.heightCm)
         targetWeight == Number(onboarding.targetWeightKg)
         reject(message) ==
           onboarding' = [onboarding EXCEPT !.error = message,
                                            !.loading = FALSE, !.pc = "idle"]
     IN  IF ~user THEN reject("Not authenticated")
         ELSE IF HeightRejected(height)
         THEN reject("Height must be between 50 and 300 cm")
         ELSE IF TargetWeightRejected(targetWeight)
         THEN reject("Target weight must be between 20 and 300 kg")
         ELSE onboarding' = [onboarding EXCEPT !.pc = "insert", !.user = TRUE]
  /\ UNCHANGED <<session, profiles, nav, arith, call, dashVars, asyncVars>>

\* handleSubmit after the insert: setLoading(false); with an error it is
\* shown, without one router.push("/").  The id is the table's key: a second
\* row for the user is an error.
handleSubmit_Inserted ==
  /\ onboarding.pc = "insert"
  /\ UNCHANGED session
  /\ \E insertError \in BOOLEAN :
       /\ Len(profiles) > 0 => insertError
       /\ IF insertError
          THEN /\ onboarding' = [onboarding EXCEPT !.error = "insertError.message",
                                                   !.loading = FALSE,
                                                   !.pc = "idle"]
               /\ UNCHANGED <<profiles, nav>>
          ELSE /\ profiles' =
                    <<[height_cm |-> Number(onboarding.heightCm),
                       target_weight_kg |-> Number(onboarding.targetWeightKg)]>>
               /\ onboarding' = EmptyOnboarding
               /\ Answer(PathRoot, 0, TRUE)
  /\ UNCHANGED <<arith, call, dashVars, asyncVars>>

-----------------------------------------------------------------------------
(* The auth callback route (SpecCallback)                                  *)
(*                                                                         *)
(* A query parameter is <<>> when it is absent (searchParams.get gives     *)
(* null) and <<text>> when it is present, text being the sequence of its   *)
(* characters.  A location is the base it is built on and the path put     *)
(* after it.                                                               *)

PathLoginError ==
  PathLogin \o <<"?", "e", "r", "r", "o", "r", "=", "a", "u", "t", "h">>

Codes == {<<>>, <<<<>>>>, <<<<"a", "b", "c">>>>}
Nexts ==
  {<<>>, <<<<>>>>, <<PathRoot>>, <<PathResetPassword>>,
   <<<<"s", "e", "t", "t", "i", "n", "g", "s">>>>,
   <<<<"/", "/", "e", "v", "i", "l", ".", "c", "o", "m">>>>,
   <<<<"h", "t", "t", "p", "s", ":", "/", "/", "e", "v", "i", "l">>>>}
ForwardedHosts == {<<>>, <<"app.example">>}

Origin == <<"origin">>

\* The next parameter taken as it comes.
nextPath_Unchecked(param) == IF param = <<>> THEN PathRoot ELSE param[1]

\* next = searchParams.get("next") ?? "/"; next.startsWith("/") ? next : "/"
nextPath(param) ==
  LET next == IF param = <<>> THEN PathRoot ELSE param[1]
  IN  IF startsWith(next, <<"/">>) THEN next ELSE PathRoot

\* GET(request): exchanged says whether exchangeCodeForSession was called
\* and gave no error (exchangeError is its result when it is called).
GET(code, next, exchangeError, forwardedHost, isLocalEnv) ==
  IF code # <<>> /\ code[1] # <<>> /\ ~exchangeError
  THEN [status |-> "redirect", exchanged |-> TRUE,
        location |->
          IF isLocalEnv THEN [base |-> Origin, path |-> nextPath(next)]
          ELSE IF forwardedHost # <<>>
          THEN [base |-> <<"https://", forwardedHost[1]>>,
                path |-> nextPath(next)]
          ELSE [base |-> Origin, path |-> nextPath(next)]]
  ELSE [status |-> "redirect", exchanged |-> FALSE,
        location |-> [base |-> Origin, path |-> PathLoginError]]

\* The route is requested; a successful exchange starts a session.
CallGET ==
  /\ \E code \in Codes, next \in Nexts, exchangeError \in BOOLEAN,
        forwardedHost \in ForwardedHosts, isLocalEnv \in BOOLEAN :
       /\ call' = [fn |-> "GET", code |-> code, next |-> next,
                   exchangeError |-> exchangeError,
                   forwardedHost |-> forwardedHost, isLocalEnv |-> isLocalEnv,
                   out |-> GET(code, next, exchangeError, forwardedHost,
                               isLocalEnv)]
       /\ session' = (session \/ call'.out.exchanged)
  /\ UNCHANGED <<arith, dashVars, asyncVars, profiles, onboarding, nav>>

-----------------------------------------------------------------------------
(* Initial states and the specifications *)

\* Weight series the histories cycle through, newest first.
Patterns == {<<R(80), R(82), R(78)>>, <<R(70), <<145, 2>>, R(95), R(64)>>}

\* A history of n measurements, newest first, gap ticks apart, the newest at tick 0.
History(n, gap, pat) ==
  [i \in 1..n |-> [weight_kg |-> pat[((i - 1) % Len(pat)) + 1],
                   created_at |-> -((i - 1) * gap)]]

\* Short histories with gaps around the 7-day window, and long ones around the caps.
MaxShortLen == 3
Gaps == {6 * TicksPerDay, 7 * TicksPerDay}
LongLens == {ChartCapGoalLine - 1, ChartCapGoalLine, ChartCapGoalLine + 1,
             ChartCapDefault - 1, ChartCapDefault, ChartCapDefault + 1}

ShortHistories ==
  {History(n, gap, pat) : n \in 0..MaxShortLen, gap \in Gaps, pat \in Patterns}
LongHistories == {History(n, 1, <<R(80), R(82), R(78)>>) : n \in LongLens}

InitialProfiles ==
  {[height_cm |-> R(170), target_weight_kg |-> NULL],
   [height_cm |-> R(170), target_weight_kg |-> R(65)],
   [height_cm |-> R(MinHeightCm), target_weight_kg |-> R(95)],
   [height_cm |-> R(MaxHeightCm), target_weight_kg |-> R(60)]}

InitialGoals ==
  {<<>>, <<[target_weight_kg |-> R(65), deadline |-> 14, status |-> "active"]>>}

InitDash ==
  /\ now = 0
  /\ \/ /\ measurements \in ShortHistories
        /\ profile \in InitialProfiles
        /\ goals \in InitialGoals
     \/ /\ measurements \in LongHistories
        /\ profile = [height_cm |-> R(170), target_weight_kg |-> R(65)]
        /\ goals \in InitialGoals
  /\ historyCount = HISTORY_INITIAL_COUNT
  /\ showBMIZones = FALSE
  /\ showGoalLine = FALSE
  /\ showShortTermGoalLine = FALSE
  /\ showFullHistory = FALSE

Init ==
  /\ arith = "real"
  /\ call = NoCall
  /\ InitDash
  /\ Idle

Next ==
  \/ handleAddWeight
  \/ handleAddGoal
  \/ handleDelete
  \/ handleDeleteGoal
  \/ LoadMore
  \/ ToggleBMIZones
  \/ ToggleGoalLine
  \/ ToggleShortTermGoalLine
  \/ ToggleFullHistory
  \/ Tick

Spec == Init /\ [][Next]_vars

InitBMI ==
  /\ arith \in {"real", "float"}
  /\ call = NoCall
  /\ now = 0
  /\ profile = [height_cm |-> R(170), target_weight_kg |-> NULL]
  /\ measurements = <<>>
  /\ goals = <<>>
  /\ historyCount = HISTORY_INITIAL_COUNT
  /\ showBMIZones = FALSE
  /\ showGoalLine = FALSE
  /\ showShortTermGoalLine = FALSE
  /\ showFullHistory = FALSE
  /\ Idle

NextBMI ==
  \/ CallCalculateBMI
  \/ CallGetBMICategory
  \/ CallGetBMIZoneBoundaries
  \/ CallRoundTrip

SpecBMI == InitBMI /\ [][NextBMI]_vars

\* SpecPace: the dashboard started on goals whose deadlines lie around today and
\* on latest weights around their targets.
PaceTargets == {R(70), R(78)}
PaceDeadlines == {-1, 0, 14, 15}
PaceGoals ==
  {<<[target_weight_kg |-> t, deadline |-> d, status |-> st]>> :
     t \in PaceTargets, d \in PaceDeadlines, st \in {"active", "achieved"}}
PaceHistories ==
  {<<>>, History(1, 1, <<R(80)>>), History(2, 1, <<R(70), R(80)>>)}

InitPace ==
  /\ arith = "real"
  /\ call = NoCall
  /\ now = 0
  /\ profile = [height_cm |-> R(170), target_weight_kg |-> NULL]
  /\ measurements \in PaceHistories
  /\ goals \in PaceGoals
  /\ historyCount = HISTORY_INITIAL_COUNT
  /\ showBMIZones = FALSE
  /\ showGoalLine = FALSE
  /\ showShortTermGoalLine = FALSE
  /\ showFullHistory = FALSE
  /\ Idle

NextPace ==
  \/ handleAddWeight
  \/ handleAddGoal
  \/ handleDelete
  \/ handleDeleteGoal
  \/ Tick

SpecPace == InitPace /\ [][NextPace]_vars

\* SpecAsync: the dashboard loaded on tables with goals on both sides of the
\* weights that are logged, and the handlers taken await by await.
AsyncGoals ==
  {<<>>,
   <<[id |-> 1, target_weight_kg |-> R(95), deadline |-> 14, status |-> "active"],
     [id |-> 2, target_weight_kg |-> R(65), deadline |-> 14, status |-> "active"],
     [id |-> 3, target_weight_kg |-> R(70), deadline |-> 30, status |-> "active"]>>,
   <<[id |-> 1, target_weight_kg |-> R(95), deadline |-> 14, status |-> "achieved"],
     [id |-> 2, target_weight_kg |-> R(65), deadline |-> 14, status |-> "active"]>>}
AsyncMeasurements ==
  {<<>>,
   <<[id |-> 4, weight_kg |-> R(80), created_at |-> 0]>>,
   <<[id |-> 4, weight_kg |-> R(70), created_at |-> 0]>>}

InitAsync ==
  /\ arith = "real"
  /\ call = NoCall
  /\ now = 0
  /\ profile = [height_cm |-> R(170), target_weight_kg |-> NULL]
  /\ \E ms \in AsyncMeasurements, gs \in AsyncGoals :
       db = [measurements |-> ms, goals |-> gs, seq |-> 4]
  /\ measurements = db.measurements
  /\ goals = db.goals
  /\ calls = {}
  /\ form = EmptyForm
  /\ session = TRUE
  /\ profiles = <<>>
  /\ onboarding = EmptyOnboarding
  /\ nav = NoRequest
  /\ historyCount = HISTORY_INITIAL_COUNT
  /\ showBMIZones = FALSE
  /\ showGoalLine = FALSE
  /\ showShortTermGoalLine = FALSE
  /\ showFullHistory = FALSE

NextAsync ==
  \/ handleAddWeight_Submit
  \/ handleAddWeight_Inserted
  \/ handleAddWeight_Updated
  \/ handleAddWeight_Imported
  \/ RefreshTimer
  \/ handleAddGoal_Submit
  \/ handleAddGoal_Inserted
  \/ AskDelete
  \/ handleDelete_Confirm
  \/ handleDelete_Deleted
  \/ AskDeleteGoal
  \/ handleDeleteGoal_Confirm
  \/ handleDeleteGoal_Deleted

\* Every call of the persistence layer returns, the dynamic import resolves
\* and a timer that was set fires.
FairAsync ==
  /\ WF_vars(handleAddWeight_Inserted)
  /\ WF_vars(handleAddWeight_Updated)
  /\ WF_vars(handleAddWeight_Imported)
  /\ WF_vars(RefreshTimer)
  /\ WF_vars(handleAddGoal_Inserted)
  /\ WF_vars(handleDelete_Deleted)
  /\ WF_vars(handleDeleteGoal_Deleted)

SpecAsync == InitAsync /\ [][NextAsync]_vars /\ FairAsync

\* SpecNav: a browser in any session, with or without a profile row.
InitNav ==
  /\ arith = "real"
  /\ call = NoCall
  /\ now = 0
  /\ profile = [height_cm |-> R(170), target_weight_kg |-> NULL]
  /\ measurements = <<>>
  /\ goals = <<>>
  /\ historyCount = HISTORY_INITIAL_COUNT
  /\ showBMIZones = FALSE
  /\ showGoalLine = FALSE
  /\ showShortTermGoalLine = FALSE
  /\ showFullHistory = FALSE
  /\ db = [measurements |-> <<>>, goals |-> <<>>, seq |-> 0]
  /\ calls = {}
  /\ form = EmptyForm
  /\ session \in BOOLEAN
  /\ profiles \in {<<>>, <<[height_cm |-> R(170), target_weight_kg |-> R(75)]>>}
  /\ onboarding = EmptyOnboarding
  /\ nav = NoRequest

NextNav ==
  \/ Request
  \/ FollowRedirect
  \/ SignIn
  \/ handleSignOut
  \/ SessionEnds
  \/ handleSubmit_Start
  \/ handleSubmit_GotUser
  \/ handleSubmit_Inserted

\* The awaited calls of handleSubmit return.
FairNav ==
  /\ WF_vars(handleSubmit_GotUser)
  /\ WF_vars(handleSubmit_Inserted)

SpecNav == InitNav /\ [][NextNav]_vars /\ FairNav

\* SpecCallback: the callback route requested with any parameters.
InitCallback ==
  /\ arith = "real"
  /\ call = NoCall
  /\ now = 0
  /\ profile = [height_cm |-> R(170), target_weight_kg |-> NULL]
  /\ measurements = <<>>
  /\ goals = <<>>
  /\ historyCount = HISTORY_INITIAL_COUNT
  /\ showBMIZones = FALSE
  /\ showGoalLine = FALSE
  /\ showShortTermGoalLine = FALSE
  /\ showFullHistory = FALSE
  /\ db = [measurements |-> <<>>, goals |-> <<>>, seq |-> 0]
  /\ calls = {}
  /\ form = EmptyForm
  /\ session \in BOOLEAN
  /\ profiles = <<>>
  /\ onboarding = EmptyOnboarding
  /\ nav = NoRequest

NextCallback == CallGET

SpecCallback == InitCallback /\ [][NextCallback]_vars

\* SpecChart: the chart under the toggles, with a history whose two oldest
\* measurements lie beyond the cap of 25 and are its lightest and heaviest,
\* and goals that are achieved, past their deadline or about to be.
OutlierHistory ==
  History(ChartCapGoalLine, 1, <<R(80)>>)
    \o <<[weight_kg |-> R(60), created_at |-> -ChartCapGoalLine],
         [weight_kg |-> R(99), created_at |-> -(ChartCapGoalLine + 1)]>>
ChartHistories == {<<>>, History(3, 1, <<R(80), R(82), R(78)>>), OutlierHistory}
ChartGoals ==
  {<<>>,
   <<[target_weight_kg |-> R(65), deadline |-> 14, status |-> "active"]>>,
   <<[target_weight_kg |-> R(65), deadline |-> 14, status |-> "active"],
     [target_weight_kg |-> R(90), deadline |-> 0, status |-> "active"]>>,
   <<[target_weight_kg |-> R(90), deadline |-> 0, status |-> "achieved"],
     [target_weight_kg |-> R(65), deadline |-> 14, status |-> "active"]>>,
   <<[target_weight_kg |-> R(90), deadline |-> -1, status |-> "active"]>>}
ChartProfiles ==
  {[height_cm |-> R(170), target_weight_kg |-> NULL],
   [height_cm |-> R(170), target_weight_kg |-> R(95)]}

InitChart ==
  /\ arith = "real"
  /\ call = NoCall
  /\ now = 0
  /\ measurements \in ChartHistories
  /\ goals \in ChartGoals
  /\ profile \in ChartProfiles
  /\ historyCount = HISTORY_INITIAL_COUNT
  /\ showBMIZones = FALSE
  /\ showGoalLine = FALSE
  /\ showShortTermGoalLine = FALSE
  /\ showFullHistory = FALSE
  /\ Idle

NextChart ==
  \/ ToggleBMIZones
  \/ ToggleGoalLine
  \/ ToggleShortTermGoalLine
  \/ ToggleFullHistory
  \/ handleDeleteGoal
  \/ Tick

SpecChart == InitChart /\ [][NextChart]_vars


-----------------------------------------------------------------------------
(* Claims about the BMI functions (SpecBMI) *)

Between(lo, x, hi) == RLeq(lo, x) /\ RLess(x, hi)

\* C1: getBMICategory puts every BMI value in exactly one category, a boundary
\* value in the upper one: bmi < 18.5 Underweight, 18.5 <= bmi < 25 Healthy,
\* 25 <= bmi < 30 Overweight, bmi >= 30 Obese.
C1_CategoryPartition ==
  call.fn = "getBMICategory" =>
    /\ call.out \in {"Underweight", "Healthy", "Overweight", "Obese"}
    /\ call.out = "Underweight" <=> RLess(call.bmi, <<37, 2>>)
    /\ call.out = "Healthy" <=> Between(<<37, 2>>, call.bmi, R(25))
    /\ call.out = "Overweight" <=> Between(R(25), call.bmi, R(30))
    /\ call.out = "Obese" <=> RLeq(R(30), call.bmi)

\* A boundary value has been categorised.
C1_Witness ==
  /\ call.fn = "getBMICategory"
  /\ call.bmi = R(25)
  /\ call.out = "Overweight"

\* One unit in the last place of the floating-point number t > 0.
Ulp(t) == Scale2(R(1), Exponent(t, Prec, 0))
WithinOneUlp(x, t) == RLeq(RAbs(RSub(x, t)), Ulp(t))

ZonesIncreasing(z) == RLess(z.underweight, z.healthy) /\ RLess(z.healthy, z.overweight)

\* C3 as stated: the boundary weights of every height, passed back through
\* calculateBMI, give exactly 18.5, 25 and 30, and the boundaries increase strictly.
C3_RoundTripExact ==
  call.fn = "roundTrip" =>
    /\ call.out.underweight = <<37, 2>>
    /\ call.out.healthy = R(25)
    /\ call.out.overweight = R(30)
    /\ ZonesIncreasing(call.zones)

\* C3 as amended: the round trip gives 18.5, 25 and 30 exactly in real arithmetic
\* and to within one unit in the last place in floating-point arithmetic, and the
\* boundaries increase strictly.
C3_RoundTripWithinRounding ==
  call.fn = "roundTrip" =>
    /\ arith = "real" =>
         call.out = [underweight |-> <<37, 2>>, healthy |-> R(25), overweight |-> R(30)]
    /\ WithinOneUlp(call.out.underweight, <<37, 2>>)
    /\ WithinOneUlp(call.out.healthy, R(25))
    /\ WithinOneUlp(call.out.overweight, R(30))
    /\ ZonesIncreasing(call.zones)

\* A floating-point round trip that did not give 30 back.
C3_Witness ==
  /\ call.fn = "roundTrip"
  /\ arith = "float"
  /\ call.out.overweight # R(30)
  /\ WithinOneUlp(call.out.overweight, R(30))


-----------------------------------------------------------------------------
(* Claims about the derived statistics (Spec) *)

\* Math.round(100 * x): x to two decimals, in hundredths.
Hundredths(x) == MathFloor(RAdd(RMul(x, R(100)), <<1, 2>>))

\* C2: with a measurement and a validated height, the current BMI is
\* w / (h/100)^2 = 10000 w / h^2 for the weight w of the first (newest)
\* measurement; for h = 170 and w = 70 it is 24.22 to two decimals, a Healthy BMI.
C2_CurrentBMI ==
  Len(measurements) > 0 =>
    /\ currentBMI = RDiv(RMul(measurements[1].weight_kg, R(10000)),
                         RMul(heightCm, heightCm))
    /\ (heightCm = R(170) /\ measurements[1].weight_kg = R(70)) =>
         /\ Hundredths(currentBMI) = 2422
         /\ getBMICategory(currentBMI) = "Healthy"

\* 70 kg has just been logged at a height of 170 cm, on top of older
\* measurements of other weights.
C2_Witness ==
  /\ Len(measurements) >= 2
  /\ profile.height_cm = R(170)
  /\ measurements[1] = [weight_kg |-> R(70), created_at |-> now]
  /\ now > 0
  /\ measurements[Len(measurements)].weight_kg # R(70)
  /\ Hundredths(currentBMI) = 2422

\* The indices of the measurements with timestamp >= now - 7 days.
InWindow(ms) == {i \in 1..Len(ms) : ms[i].created_at >= now - 7 * TicksPerDay}

\* C4: the 7-day trend is absent whenever fewer than 2 measurements have a
\* timestamp >= now - 7 days, and a number whenever 2 or more do.
C4_TrendDefined ==
  /\ Cardinality(InWindow(measurements)) < 2 => trend(measurements) = NULL
  /\ Cardinality(InWindow(measurements)) >= 2 => IsNumber(trend(measurements))

\* Time has passed and the older of two measurements, exactly 7 days old a tick
\* ago, has left the window: the trend is absent.
C4_Witness ==
  /\ now > 0
  /\ Len(measurements) = 2
  /\ InWindow(measurements) = {1}
  /\ measurements[2].created_at = now - 7 * TicksPerDay - 1
  /\ trend(measurements) = NULL

IsNewestFirst(ms) == \A i \in 1..(Len(ms) - 1) : ms[i].created_at > ms[i + 1].created_at

\* The index of the in-window measurement with the greatest / least timestamp.
MostRecentIn(ms) ==
  CHOOSE i \in InWindow(ms) : \A j \in InWindow(ms) : ms[j].created_at <= ms[i].created_at
OldestIn(ms) ==
  CHOOSE i \in InWindow(ms) : \A j \in InWindow(ms) : ms[j].created_at >= ms[i].created_at

\* C5: for a newest-first list with at least 2 measurements in the window, the
\* trend is the weight of the most recent in-window measurement minus that of the
\* oldest one, hence positive exactly when the weight went up over the window;
\* for [{80 kg, day 0}, {82 kg, day -6}] at day 0 it is -2.
C5_TrendValue ==
  /\ (IsNewestFirst(measurements) /\ Cardinality(InWindow(measurements)) >= 2) =>
       LET new == measurements[MostRecentIn(measurements)].weight_kg
           old == measurements[OldestIn(measurements)].weight_kg
       IN /\ trend(measurements) = RSub(new, old)
          /\ RLess(R(0), trend(measurements)) <=> RLess(old, new)
  /\ (now = 0 /\ measurements = <<[weight_kg |-> R(80), created_at |-> 0],
                                  [weight_kg |-> R(82), created_at |-> -(6 * TicksPerDay)]>>)
       => trend(measurements) = R(-2)

\* 70 kg logged on top of 80 kg, 82 kg (6 days before) and 78 kg (12 days before,
\* outside the window): the trend is 70 - 82.
C5_Witness ==
  /\ Len(measurements) = 4
  /\ InWindow(measurements) = {1, 2, 3}
  /\ measurements[1] = [weight_kg |-> R(70), created_at |-> now]
  /\ measurements[3].weight_kg = R(82)
  /\ measurements[4].weight_kg = R(78)
  /\ trend(measurements) = R(-12)

RECURSIVE SumOver(_, _)
SumOver(ms, S) ==
  IF S = {} THEN R(0)
  ELSE LET i == CHOOSE i \in S : TRUE
       IN RAdd(ms[i].weight_kg, SumOver(ms, S \ {i}))

\* ms with the measurement m added after its first k elements.
InsertAt(ms, k, m) == SubSeq(ms, 1, k) \o <<m>> \o SubSeq(ms, k + 1, Len(ms))

\* Measurements older than the window, and the places they are added at.
OldMeasurements ==
  {[weight_kg |-> R(300), created_at |-> now - 7 * TicksPerDay - 1],
   [weight_kg |-> R(20), created_at |-> now - 37 * TicksPerDay]}
MaxInsertAt == 1
InsertPlaces(ms) == {k \in 0..Len(ms) : k <= MaxInsertAt \/ k = Len(ms)}

\* C6: the rolling average is the unweighted mean of exactly the measurements
\* with timestamp >= now - 7 days, absent when there are none; a measurement older
\* than now - 7 days added to the list changes neither the average nor the trend.
C6_RollingAverage ==
  /\ rollingAvg(measurements) =
       IF InWindow(measurements) = {} THEN NULL
       ELSE RDiv(SumOver(measurements, InWindow(measurements)),
                 R(Cardinality(InWindow(measurements))))
  /\ LET avg == rollingAvg(measurements)
         tr == trend(measurements)
     IN \A m \in OldMeasurements : \A k \in InsertPlaces(measurements) :
          LET added == InsertAt(measurements, k, m)
          IN rollingAvg(added) = avg /\ trend(added) = tr

\* 300 kg logged on top of 80 kg and 82 kg in the window and 78 kg outside it: the
\* average is (300 + 80 + 82) / 3 = 154, not the mean of the whole list.
C6_Witness ==
  /\ Len(measurements) = 4
  /\ InWindow(measurements) = {1, 2, 3}
  /\ measurements[1] = [weight_kg |-> R(300), created_at |-> now]
  /\ measurements[4].weight_kg = R(78)
  /\ rollingAvg(measurements) = R(154)


-----------------------------------------------------------------------------
(* Claims about the chart (Spec) *)

\* C7: the y-axis tick list is never empty, rises in steps of exactly 5, holds
\* multiples of 5 only, starts at floor(yDomainMin / 5) * 5 <= yDomainMin and ends
\* at ceil(yDomainMax / 5) * 5 >= yDomainMax.
C7_TicksCoverDomain ==
  LET ticks == yTicks
      lo == yDomainMin
      hi == yDomainMax
  IN /\ Len(ticks) > 0
     /\ \A i \in 1..(Len(ticks) - 1) : ticks[i + 1] = ticks[i] + 5
     /\ \A i \in 1..Len(ticks) : ticks[i] % 5 = 0
     /\ RLeq(R(ticks[1]), lo)
     /\ RLeq(hi, R(ticks[Len(ticks)]))
     /\ ticks[1] = MathFloor(RDiv(lo, R(5))) * 5
     /\ ticks[Len(ticks)] = MathCeil(RDiv(hi, R(5))) * 5

\* The BMI zones pull the domain below zero: the first tick is -5, and the last
\* tick lies above a domain maximum that is not a multiple of 5.
C7_Witness ==
  /\ showBMIZones
  /\ RLess(yDomainMin, R(0))
  /\ yTicks[1] = -5
  /\ RLess(yDomainMax, R(yTicks[Len(yTicks)]))

longTermLineVisible == showGoalLine /\ targetWeightKg # NULL
shortTermLineVisible == showShortTermGoalLine /\ upcomingShortTermGoal # NoGoal

\* lo and hi are the least and the greatest weight of the chart's points.
LeastInView(lo) ==
  LET d == chartData
  IN /\ \E i \in 1..Len(d) : d[i].weight = lo
     /\ \A i \in 1..Len(d) : RLeq(lo, d[i].weight)
GreatestInView(hi) ==
  LET d == chartData
  IN /\ \E i \in 1..Len(d) : d[i].weight = hi
     /\ \A i \in 1..Len(d) : RLeq(d[i].weight, hi)

\* C8: the target T of every visible goal line (long-term: toggle on and a profile
\* target; short-term: toggle on and an upcoming goal) has yDomainMin <= T - 5 and
\* yDomainMax >= T + 5; with no line and no zone visible, the domain of a non-empty
\* series is exactly [least weight in view - 2, greatest weight in view + 5].
C8_GoalLinesInDomain ==
  /\ longTermLineVisible =>
       /\ RLeq(yDomainMin, RSub(targetWeightKg, R(5)))
       /\ RLeq(RAdd(targetWeightKg, R(5)), yDomainMax)
  /\ shortTermLineVisible =>
       /\ RLeq(yDomainMin, RSub(upcomingShortTermGoal.target_weight_kg, R(5)))
       /\ RLeq(RAdd(upcomingShortTermGoal.target_weight_kg, R(5)), yDomainMax)
  /\ (~showBMIZones /\ ~longTermLineVisible /\ ~shortTermLineVisible
      /\ Len(chartData) > 0) =>
       /\ LeastInView(RAdd(yDomainMin, R(2)))
       /\ GreatestInView(RSub(yDomainMax, R(5)))

\* A visible short-term goal line above every weight in view: it sets the maximum.
C8_Witness ==
  /\ Len(chartData) > 0
  /\ shortTermLineVisible
  /\ ~longTermLineVisible
  /\ \A w \in chartWeights : RLess(RAdd(w, R(5)), yDomainMax)
  /\ yDomainMax = RAdd(upcomingShortTermGoal.target_weight_kg, R(5))

\* C9 as stated: with the BMI-zones toggle on, each of the three zone boundary
\* weights lies within [yDomainMin, yDomainMax].
C9_ZonesInDomain ==
  showBMIZones =>
    /\ RLeq(yDomainMin, bmiZones.underweight) /\ RLeq(bmiZones.underweight, yDomainMax)
    /\ RLeq(yDomainMin, bmiZones.healthy) /\ RLeq(bmiZones.healthy, yDomainMax)
    /\ RLeq(yDomainMin, bmiZones.overweight) /\ RLeq(bmiZones.overweight, yDomainMax)

\* The cap on the chart's series.
ChartCap ==
  IF showFullHistory THEN Len(measurements)
  ELSE IF showGoalLine \/ showShortTermGoalLine THEN 25
  ELSE 50

-----------------------------------------------------------------------------
(* Claims about the goal rows (SpecPace) *)

\* C11: for every goal and time, daysRemaining = max(0, whole days from now to
\* the deadline) is never negative and weeksRemaining = max(daysRemaining / 7,
\* 0.01) is never below 0.01, so the division of kgPerWeek is never by zero; a
\* deadline of today or of a past day gives 0 days and 0.01 weeks.
C11_PaceNeverDividesByZero ==
  \A i \in 1..Len(goals) :
    LET g == goals[i]
        days == daysRemaining(g)
        weeks == weeksRemaining(g)
    IN /\ days >= 0
       /\ days * TicksPerDay <= DeadlineTime(g) - now \/ days = 0
       /\ DeadlineTime(g) - now < (days + 1) * TicksPerDay
       /\ RLeq(<<1, 100>>, weeks)
       /\ weeks = MathMax(RDiv(R(days), R(7)), <<1, 100>>)
       /\ IsNumber(kgPerWeek(g))
       /\ g.deadline <= today => days = 0 /\ weeks = <<1, 100>>

\* Later on the day of its deadline a goal's target is still unmet: 0 days and
\* 0.01 weeks remain, and the pace is a hundred times the weight to lose.
C11_Witness ==
  /\ now > 0
  /\ latestWeight = R(80)
  /\ \E i \in 1..Len(goals) :
       /\ goals[i] = [target_weight_kg |-> R(70), deadline |-> today, status |-> "active"]
       /\ daysRemaining(goals[i]) = 0
       /\ weeksRemaining(goals[i]) = <<1, 100>>
       /\ kgPerWeek(goals[i]) = R(1000)

\* C12: a goal is treated as achieved exactly when its persisted status is
\* 'achieved' or a latest measurement exists whose weight is <= the target; with
\* no measurements an 'active' goal is never treated as achieved.
C12_AchievedIff ==
  \A i \in 1..Len(goals) :
    LET g == goals[i] IN
    /\ isAchieved(g) <=>
         \/ g.status = "achieved"
         \/ Len(measurements) > 0 /\ RLeq(measurements[1].weight_kg, g.target_weight_kg)
    /\ (Len(measurements) = 0 /\ g.status = "active") => ~isAchieved(g)

\* A goal of 95 kg added while the latest weight is 80 kg: its status is
\* 'active', and it is treated as achieved; beside it, a goal persisted as
\* achieved whose target the latest weight is above.
C12_Witness ==
  /\ now > 0
  /\ latestWeight = R(80)
  /\ \E i \in 1..Len(goals) :
       /\ goals[i].status = "active" /\ goals[i].target_weight_kg = R(95)
       /\ isAchieved(goals[i])
  /\ \E i \in 1..Len(goals) :
       /\ goals[i].status = "achieved" /\ goals[i].target_weight_kg = R(70)
       /\ isAchieved(goals[i])

\* C13: for a goal that is not achieved and a present latest weight W,
\* kgPerWeek = (W - T) / weeksRemaining, flagged ambitious exactly when it is
\* > 1 (exactly 1 is not ambitious); target 70, a deadline 14 whole days out and
\* W = 80 give 10 kg to lose, 2 weeks, 5 kg per week, ambitious.
C13_PaceAndAmbitious ==
  \A i \in 1..Len(goals) :
    LET g == goals[i] IN
    (~isAchieved(g) /\ latestWeight # NULL) =>
      /\ kgPerWeek(g) = RDiv(RSub(measurements[1].weight_kg, g.target_weight_kg),
                             weeksRemaining(g))
      /\ isAmbitious(g) <=> RLess(R(1), kgPerWeek(g))
      /\ kgPerWeek(g) = R(1) => ~isAmbitious(g)
      /\ (/\ g.target_weight_kg = R(70)
          /\ latestWeight = R(80)
          /\ DeadlineTime(g) - now >= 14 * TicksPerDay
          /\ DeadlineTime(g) - now < 15 * TicksPerDay) =>
           /\ kgToLose(g) = R(10)
           /\ weeksRemaining(g) = R(2)
           /\ kgPerWeek(g) = R(5)
           /\ isAmbitious(g)

\* After the newest measurement was deleted the latest weight is 80 kg, 2 kg
\* above a target 14 whole days out: the pace is exactly 1 kg per week, not ambitious.
C13_Witness ==
  /\ now > 0
  /\ latestWeight = R(80)
  /\ \E i \in 1..Len(goals) :
       /\ goals[i].target_weight_kg = R(78)
       /\ ~isAchieved(goals[i])
       /\ kgPerWeek(goals[i]) = R(1)
       /\ ~isAmbitious(goals[i])

\* C19: the row of a goal treated as achieved shows 0 days remaining and the
\* badge, and neither the pace nor the warning; pace and warning are shown only
\* for a goal not achieved with a latest weight present, so the fallback
\* kgToLose = T (no latest weight) never reaches the display.
C19_AchievedRowHidesPace ==
  \A i \in 1..Len(goals) :
    LET g == goals[i]
        row == goalRows[i]
    IN /\ isAchieved(g) =>
            /\ row.daysShown = 0 /\ row.achievedBadge
            /\ ~row.paceShown /\ row.realism = NULL /\ ~row.ambitiousShown
       /\ row.paceShown => ~isAchieved(g) /\ latestWeight # NULL
       /\ row.ambitiousShown => row.paceShown
       /\ latestWeight = NULL =>
            /\ kgToLose(g) = g.target_weight_kg
            /\ ~row.paceShown /\ row.realism = NULL /\ ~row.ambitiousShown

\* The only measurement was deleted: the pace computed from the fallback is
\* ambitious (70 kg in 2 weeks), and the row of the active goal shows none of it.
C19_Witness ==
  /\ now > 0
  /\ latestWeight = NULL
  /\ \E i \in 1..Len(goals) :
       /\ goals[i].status = "active"
       /\ kgToLose(goals[i]) = goals[i].target_weight_kg
       /\ isAmbitious(goals[i])
       /\ ~goalRows[i].paceShown
       /\ ~goalRows[i].ambitiousShown
       /\ goalRows[i].daysShown > 0


-----------------------------------------------------------------------------
(* Claims about the empty dashboard (Spec) *)

\* C15: with an empty measurement list the current BMI, the 7-day trend and the
\* rolling average are all null, the chart series is empty and the chart is not
\* rendered, and the y-axis domain and ticks are still well defined: numbers with
\* yDomainMin < yDomainMax, [-2, 105] and ticks -5 .. 105 when nothing is overlaid.
C15_EmptyListAbsent ==
  Len(measurements) = 0 =>
    /\ latestWeight = NULL
    /\ currentBMI = NULL
    /\ trend(measurements) = NULL
    /\ rollingAvg(measurements) = NULL
    /\ chartData = <<>>
    /\ ~chartRendered
    /\ IsNumber(yDomainMin) /\ IsNumber(yDomainMax)
    /\ RLess(yDomainMin, yDomainMax)
    /\ Len(yTicks) >= 2
    /\ (~showBMIZones /\ ~longTermLineVisible /\ ~shortTermLineVisible) =>
         /\ yDomainMin = R(-2) /\ yDomainMax = R(105)
         /\ yTicks[1] = -5 /\ yTicks[Len(yTicks)] = 105

\* The only measurement was deleted while the BMI zones and the long-term goal
\* line were on: the list is empty, nothing is averaged, and the axis runs over
\* its defaults, ticks -5 to 105.
C15_Witness ==
  /\ now > 0
  /\ Len(measurements) = 0
  /\ showBMIZones /\ longTermLineVisible
  /\ rollingAvg(measurements) = NULL
  /\ yDomainMin = R(-2) /\ yDomainMax = R(105)
  /\ yTicks[1] = -5 /\ yTicks[Len(yTicks)] = 105


-----------------------------------------------------------------------------
(* Claims about the handlers (SpecAsync) *)

CallIds == 1..MaxCalls
HasCall(k, P(_)) == \E c \in calls : c.id = k /\ P(c)
Range(seq) == {seq[i] : i \in 1..Len(seq)}
NoDuplicates(seq) == Cardinality(Range(seq)) = Len(seq)

\* The goals of the snapshot that a logged weight achieves, and those it does not.
ToAchieve(c) ==
  {g.id : g \in {h \in Range(c.goals) :
                   h.status # "achieved" /\ RLeq(c.weight, h.target_weight_kg)}}
AboveTarget(c) ==
  {g.id : g \in {h \in Range(c.goals) : RLess(h.target_weight_kg, c.weight)}}

LoggedOk(c) == c.fn = "handleAddWeight" /\ c.ok = "ok"
AllUpdated(c) == LoggedOk(c) /\ Range(c.updated) = ToAchieve(c)

\* C14: when a weight w is logged successfully, every goal of the handler's
\* snapshot whose status is not 'achieved' and whose target is >= w eventually
\* gets its own update to 'achieved', one update per goal, one after another,
\* and no goal whose target is < w is updated.
C14_AchievedGoalsUpdated ==
  /\ [](\A c \in calls :
          /\ NoDuplicates(c.updated)
          /\ Range(c.updated) \subseteq ToAchieve(c)
          /\ Range(c.updated) \cap AboveTarget(c) = {}
          /\ Len(c.todo) > 0 => c.pc = "update"
          /\ c.ok # "ok" => c.updated = <<>>)
  /\ \A k \in CallIds : HasCall(k, LoggedOk) ~> HasCall(k, AllUpdated)

\* 70 kg was logged on goals of 95, 65 and 70 kg: the goals of 95 and 70 kg got
\* their updates, in this order, and are persisted as achieved; the goal of 65
\* kg got none.
C14_Witness ==
  \E c \in calls :
    /\ c.fn = "handleAddWeight" /\ c.weight = R(70) /\ c.pc = "done"
    /\ c.updated = <<1, 3>>
    /\ Len(db.goals) = 3
    /\ db.goals[1].status = "achieved"
    /\ db.goals[2].status = "active"
    /\ db.goals[3].status = "achieved"

InRange(x) == IsNumber(x) /\ RLeq(R(20), x) /\ RLeq(x, R(300))
Sent(c) == c.fn \in {"handleAddWeight", "handleAddGoal"} /\ c.ok # "rejected"

\* C16: every measurement weight and every goal target sent to the persistence
\* layer, and every one stored, is a number in [20, 300]; a submission of a text
\* that is not a number in [20, 300] sends nothing and changes nothing but the
\* text in the input.
C16_OnlyValidatedWeightsSent ==
  /\ [](/\ \A c \in calls : Sent(c) => InRange(c.weight)
        /\ \A i \in 1..Len(db.measurements) : InRange(db.measurements[i].weight_kg)
        /\ \A i \in 1..Len(db.goals) : InRange(db.goals[i].target_weight_kg)
        /\ form.submitting => InRange(parseFloat(form.weightInput))
        /\ form.goalSubmitting => InRange(parseFloat(form.goalWeight)))
  /\ [][\A c \in calls' \ calls :
          (c.fn \in {"handleAddWeight", "handleAddGoal"} /\ ~InRange(c.weight)) =>
            /\ c.ok = "rejected" /\ c.pc = "done"
            /\ UNCHANGED <<db, measurements, goals>>
            /\ form'.submitting = form.submitting
            /\ form'.goalSubmitting = form.goalSubmitting]_vars

\* 300 kg was logged and is stored.
C16_Witness ==
  /\ \E c \in calls : c.fn = "handleAddWeight" /\ c.weight = R(300) /\ c.ok = "ok"
  /\ Len(db.measurements) > 0
  /\ db.measurements[1].weight_kg = R(300)
  /\ measurements = db.measurements

Succeeded(c) == c.ok = "ok"
Refreshed(c) == c.ok = "ok" /\ c.refresh = "done"

\* C18: every add-measurement, delete-measurement, add-goal and delete-goal
\* whose persistence call succeeds eventually calls router.refresh(), also on
\* the paths that delay it by 800 ms for the confetti; the measurement and goal
\* arrays change only by a refresh, to the tables as a whole.
C18_MutationsRefresh ==
  /\ \A k \in CallIds : HasCall(k, Succeeded) ~> HasCall(k, Refreshed)
  /\ [][(measurements' # measurements \/ goals' # goals) =>
          /\ measurements' = db'.measurements /\ goals' = db'.goals
          /\ \E c \in calls' : c.refresh = "done" /\ c \notin calls]_vars

\* A lower weight was logged with no goal to achieve: the confetti was fired,
\* the timer has run out and the page shows the new row.
C18_Witness ==
  \E c \in calls :
    /\ c.fn = "handleAddWeight" /\ c.ok = "ok"
    /\ c.confetti /\ c.refresh = "done" /\ c.updated = <<>>
    /\ measurements = db.measurements
    /\ measurements[1].weight_kg = c.weight

-----------------------------------------------------------------------------
(* Claims about the onboarding page and the middleware (SpecNav) *)

InHeight(x) == IsNumber(x) /\ RLeq(R(MinHeightCm), x) /\ RLeq(x, R(MaxHeightCm))

\* handleSubmit leaves its validation: it returns or sends the insert.
Decides == onboarding.pc = "getUser" /\ onboarding'.pc # "getUser"
\* handleSubmit ends without a new profile row.
Refuses ==
  onboarding.pc # "idle" /\ onboarding'.pc = "idle" /\ profiles' = profiles
RefusedWithMessage ==
  Refuses => onboarding'.error # NoError /\ ~onboarding'.loading

\* C17 as stated: the target weight is optional, so that a submission with a
\* user, a height in [50, 300] and an empty target goes on to the insert; a
\* profile row is created only with a user, such a height and a target that
\* is empty or in [20, 300]; a refused submission inserts nothing, shows a
\* message and resets loading.
C17_EmptyTargetCreatesProfile ==
  [][LET height == Number(onboarding.heightCm)
         targetWeight == Number(onboarding.targetWeightKg)
     IN  /\ profiles' # profiles =>
               /\ onboarding.pc = "insert"
               /\ onboarding.user
               /\ InHeight(height)
               /\ onboarding.targetWeightKg = "" \/ InRange(targetWeight)
         /\ Decides /\ session /\ InHeight(height)
               /\ onboarding.targetWeightKg = ""
              => onboarding'.pc = "insert"
         /\ RefusedWithMessage]_vars

\* C17: handleSubmit sends the insert exactly when getUser() finds a user,
\* the height is in [50, 300] and the target weight is in [20, 300]; an empty
\* target is Number("") = 0 and is refused like any other target below 20.
\* A profile row is created only by that insert, with that height and
\* target; a submission that ends without a new row (refused at a check, or
\* its insert failed) inserts nothing, shows a message and resets loading.
C17_ProfileNeedsHeightAndTarget ==
  [][LET height == Number(onboarding.heightCm)
         targetWeight == Number(onboarding.targetWeightKg)
     IN  /\ profiles' # profiles =>
               /\ onboarding.pc = "insert"
               /\ onboarding.user
               /\ InHeight(height)
               /\ InRange(targetWeight)
               /\ profiles' = <<[height_cm |-> height,
                                 target_weight_kg |-> targetWeight]>>
         /\ Decides =>
               (onboarding'.pc = "insert"
                  <=> session /\ InHeight(height) /\ InRange(targetWeight))
         /\ Decides /\ onboarding.targetWeightKg = "" =>
               /\ onboarding'.pc = "idle"
               /\ onboarding'.error # NoError
         /\ RefusedWithMessage]_vars

\* A profile was created from 50 cm and 20 kg, and a later submission with
\* the same height and an empty target was refused with the target's message.
C17_Witness ==
  /\ profiles = <<[height_cm |-> R(50), target_weight_kg |-> R(20)]>>
  /\ onboarding.heightCm = "50"
  /\ onboarding.targetWeightKg = ""
  /\ onboarding.pc = "idle"
  /\ onboarding.error = "Target weight must be between 20 and 300 kg"
  /\ ~onboarding.loading

\* The public routes as the claim names them: /login, /register,
\* /auth/callback or a sub-path of one of them.
OnPublicRoute(pathname) ==
  \E route \in PUBLIC_ROUTES :
    pathname = route \/ startsWith(pathname, route \o <<"/">>)

\* C20: a request without a user whose path is not a public route or a
\* sub-path of one is redirected to /login, never passed through, and no
\* profile lookup is made for it.
C20_AuthRequiredOffPublicRoutes ==
  nav.kind # "none" /\ ~nav.user /\ ~OnPublicRoute(nav.pathname) =>
    /\ nav.kind = "redirect"
    /\ nav.to = PathLogin
    /\ ~nav.lookup

\* C21: a user without a profile row is redirected to /onboarding for every
\* path that is not a public route (or a sub-path of one), /onboarding or
\* /reset-password; /reset-password is passed through for every user without
\* a profile lookup; a user with a profile is never redirected to /onboarding.
C21_NoProfileGoesToOnboarding ==
  nav.kind # "none" /\ nav.user =>
    /\ Len(profiles) = 0 /\ ~OnPublicRoute(nav.pathname)
          /\ nav.pathname \notin {PathOnboarding, PathResetPassword}
         => nav.kind = "redirect" /\ nav.to = PathOnboarding
    /\ nav.pathname = PathResetPassword =>
         nav.kind = "next" /\ ~nav.lookup
    /\ Len(profiles) > 0 =>
         ~(nav.kind = "redirect" /\ nav.to = PathOnboarding)

\* C22: a user requesting /login or /register is redirected to "/";
\* /auth/callback is passed through with and without a user.
C22_SignedInLeavesAuthPages ==
  nav.kind # "none" =>
    /\ nav.user /\ nav.pathname \in {PathLogin, PathRegister} =>
         nav.kind = "redirect" /\ nav.to = PathRoot
    /\ nav.pathname = PathAuthCallback =>
         nav.kind = "next" /\ nav.to = PathAuthCallback

\* A user asked for /login and was sent to "/".
C22_Witness ==
  /\ nav.user
  /\ nav.pathname = PathLogin
  /\ nav.kind = "redirect"
  /\ nav.to = PathRoot
  /\ nav.hops = 0

\* C23: with the same user and the same profile rows at every request of a
\* chain, at most 2 redirects are followed and the request after the second
\* is passed through: no chain of redirects loops.
C23_AtMostTwoRedirects ==
  nav.steady =>
    /\ nav.hops <= 2
    /\ nav.hops = 2 => nav.kind = "next"

\* A user without a profile asked for /login or /register: "/" after one
\* redirect, /onboarding after two, and that page is served.
C23_Witness ==
  /\ nav.steady
  /\ nav.hops = 2
  /\ nav.user
  /\ Len(profiles) = 0
  /\ nav.kind = "next"
  /\ nav.to = PathOnboarding

-----------------------------------------------------------------------------
(* Claims about the auth callback route (SpecCallback) *)

HasCode == call.code # <<>> /\ call.code[1] # <<>>

\* C29: the callback always answers with a redirect.  With a code whose
\* exchange succeeds the path is the next parameter when that begins with
\* "/" and "/" otherwise, on the request's origin or on the forwarded host;
\* without a code (none, or an empty one) or with a failed exchange the
\* redirect is to /login?error=auth on the request's origin.
C29_CallbackRedirects ==
  call.fn = "GET" =>
    /\ call.out.status = "redirect"
    /\ IF HasCode /\ ~call.exchangeError
       THEN /\ call.out.location.path =
                 (IF call.next # <<>> /\ Len(call.next[1]) > 0
                       /\ Head(call.next[1]) = "/"
                  THEN call.next[1] ELSE PathRoot)
            /\ \/ call.out.location.base = Origin
               \/ /\ call.forwardedHost # <<>>
                  /\ call.out.location.base =
                       <<"https://", call.forwardedHost[1]>>
            /\ session
       ELSE /\ call.out.location = [base |-> Origin, path |-> PathLoginError]
            /\ ~call.out.exchanged

\* A code was exchanged and the next parameter was an absolute URL: the
\* redirect is to "/" on the forwarded host.
C29_Witness ==
  /\ call.fn = "GET"
  /\ HasCode /\ ~call.exchangeError
  /\ call.next = <<<<"h", "t", "t", "p", "s", ":", "/", "/", "e", "v", "i", "l">>>>
  /\ call.out.location = [base |-> <<"https://", "app.example">>,
                          path |-> PathRoot]

-----------------------------------------------------------------------------
(* Claims about the short-term goal and the chart's domain (SpecChart) *)

\* The goals that are not achieved and whose deadline has not passed.
Upcoming ==
  {i \in 1..Len(goals) :
     goals[i].status # "achieved" /\ DeadlineTime(goals[i]) >= now}
UpcomingIsEarliest ==
  IF Upcoming = {} THEN upcomingShortTermGoal = NoGoal
  ELSE \E i \in Upcoming :
         /\ upcomingShortTermGoal = goals[i]
         /\ \A j \in Upcoming : goals[i].deadline <= goals[j].deadline

\* The domain that the weights ws give (0 and 100 with no weight) with the
\* zones, the long-term line and the short-term line switched on or off.
DomainUnder(zones, long, short, ws) ==
  LET lo == IF ws = {} THEN R(0) ELSE MathMinOf(ws)
      hi == IF ws = {} THEN R(100) ELSE MathMaxOf(ws)
      goal == upcomingShortTermGoal
      isLong == long /\ targetWeightKg # NULL
      isShort == short /\ goal # NoGoal
      mins == {RSub(lo, R(2))}
                \cup (IF zones THEN {RSub(bmiZones.underweight, R(5))} ELSE {})
                \cup (IF isLong THEN {RSub(targetWeightKg, R(5))} ELSE {})
                \cup (IF isShort THEN {RSub(goal.target_weight_kg, R(5))} ELSE {})
      maxs == {RAdd(hi, R(5))}
                \cup (IF isLong THEN {RAdd(targetWeightKg, R(5))} ELSE {})
                \cup (IF isShort THEN {RAdd(goal.target_weight_kg, R(5))} ELSE {})
  IN  [min |-> MathMinOf(mins), max |-> MathMaxOf(maxs)]
WeightsOf(ms) == {ms[i].weight_kg : i \in 1..Len(ms)}
\* The series the chart would show with the short-term toggle off.
SeriesToggledOff ==
  IF showFullHistory THEN measurements
  ELSE Slice(measurements,
             IF showGoalLine THEN ChartCapGoalLine ELSE ChartCapDefault)

\* C27 as stated: the upcoming short-term goal is the one with the earliest
\* deadline among the goals not achieved and not past their deadline, and
\* absent without such a goal; when it is absent the short-term line is not
\* drawn and the domain is the one the chart has with the toggle off.
C27_AbsentGoalToggleHasNoEffect ==
  /\ UpcomingIsEarliest
  /\ upcomingShortTermGoal = NoGoal =>
       /\ ~shortTermLineVisible
       /\ [min |-> yDomainMin, max |-> yDomainMax]
            = DomainUnder(showBMIZones, showGoalLine, FALSE,
                          WeightsOf(SeriesToggledOff))

\* C27: the upcoming short-term goal is as stated; when it is absent the
\* short-term line is not drawn and the domain is the one that the series in
\* view gives without a short-term line.  (The toggle still caps the series
\* at 25 measurements.)
C27_UpcomingShortTermGoal ==
  /\ UpcomingIsEarliest
  /\ upcomingShortTermGoal = NoGoal =>
       /\ ~shortTermLineVisible
       /\ [min |-> yDomainMin, max |-> yDomainMax]
            = DomainUnder(showBMIZones, showGoalLine, FALSE, chartWeights)

\* The toggle was turned on and the goal's deadline then passed: no line, the
\* series is capped at 25 and the domain is [78, 85], while the 27
\* measurements run from 60 to 99.
C27_Witness ==
  /\ showShortTermGoalLine
  /\ upcomingShortTermGoal = NoGoal
  /\ Len(goals) > 0
  /\ ~showGoalLine /\ ~showFullHistory /\ ~showBMIZones
  /\ Len(measurements) = ChartCapGoalLine + 2
  /\ Len(chartData) = ChartCapGoalLine
  /\ yDomainMin = R(78) /\ yDomainMax = R(85)

\* C28: with a non-empty series, yDomainMin <= least weight in view - 2 and
\* yDomainMax >= greatest weight in view + 5 under every combination of the
\* toggles, so that yDomainMin < yDomainMax and every point lies strictly
\* inside; for the series in view, the domain is the one its weights give
\* under the toggles as they are, and switching one more toggle on never
\* gives a greater yDomainMin nor a smaller yDomainMax.
C28_DomainHoldsSeries ==
  Len(chartData) > 0 =>
    /\ \E lo \in chartWeights :
         LeastInView(lo) /\ RLeq(yDomainMin, RSub(lo, R(2)))
    /\ \E hi \in chartWeights :
         GreatestInView(hi) /\ RLeq(RAdd(hi, R(5)), yDomainMax)
    /\ RLess(yDomainMin, yDomainMax)
    /\ \A w \in chartWeights : RLess(yDomainMin, w) /\ RLess(w, yDomainMax)
    /\ [min |-> yDomainMin, max |-> yDomainMax]
         = DomainUnder(showBMIZones, showGoalLine, showShortTermGoalLine,
                       chartWeights)
    /\ \A zones, long, short \in BOOLEAN :
         LET off == DomainUnder(zones, long, short, chartWeights) IN
         \A on \in {DomainUnder(TRUE, long, short, chartWeights),
                     DomainUnder(zones, TRUE, short, chartWeights),
                     DomainUnder(zones, long, TRUE, chartWeights)} :
           RLeq(on.min, off.min) /\ RLeq(off.max, on.max)

\* All four toggles are on over the 27 measurements, with a long-term target of
\* 95 and a short-term one of 65: the zones lower yDomainMin below 60 - 2.
C28_Witness ==
  /\ showBMIZones /\ showGoalLine /\ showShortTermGoalLine /\ showFullHistory
  /\ Len(chartData) = ChartCapGoalLine + 2
  /\ shortTermLineVisible /\ longTermLineVisible
  /\ RLess(yDomainMin, R(58))
  /\ yDomainMax = R(104)

-----------------------------------------------------------------------------
(* Claims about the confetti, the insert's error and the goals' status     *)
(* (SpecAsync)                                                             *)

\* The logged weight is strictly below the latest weight of the snapshot.
WentDown(c) == c.latestWeight # NULL /\ RLess(c.weight, c.latestWeight)
Finished(c) == c.fn = "handleAddWeight" /\ c.ok = "ok" /\ c.pc = "done"

C25_InsertErrorStopsHandler ==
  /\ [](\A c \in calls :
          c.fn = "handleAddWeight" /\ c.ok = "error" =>
            /\ c.pc = "done"
            /\ c.updated = <<>> /\ c.todo = <<>>
            /\ ~c.confetti
            /\ c.refresh = "none")
  /\ [][\A c \in calls :
          c.fn = "handleAddWeight" /\ c.pc = "await" =>
            \A d \in calls' :
              d.id = c.id /\ d.pc # "await" =>
                /\ ~form'.submitting
                /\ form'.weightInput = ""
                /\ d.ok = "error" =>
                     /\ db' = db
                     /\ measurements' = measurements
                     /\ goals' = goals]_vars

\* 70 kg was typed on goals it would achieve and a heavier previous weight;
\* the insert failed: the form is reset and nothing else happened.
C25_Witness ==
  \E c \in calls :
    /\ c.fn = "handleAddWeight" /\ c.ok = "error" /\ c.weight = R(70)
    /\ ToAchieve(c) # {} /\ WentDown(c)
    /\ ~form.submitting /\ form.weightInput = ""
    /\ \A i \in 1..Len(db.goals) : db.goals[i].status = "active"
    /\ Len(db.measurements) = 1

\* The persisted goals with their ids, and those among them that are achieved.
AchievedIn(rows) == {rows[i].id : i \in {j \in 1..Len(rows) : rows[j].status = "achieved"}}

IdsOf(rows) == {rows[i].id : i \in 1..Len(rows)}

\* C26: the only status written is 'achieved' (a new goal has the table's
\* default): a goal persisted as achieved stays so at every step unless it is
\* deleted, in the table and in the props, and a goal of the props whose
\* status is achieved is shown as achieved whatever the latest weight is.
C26_AchievedStays ==
  /\ [](\A i \in 1..Len(goals) :
          /\ goals[i].status \in {"active", "achieved"}
          /\ goals[i].status = "achieved" => isAchieved(goals[i]))
  /\ [][/\ AchievedIn(db.goals) \cap IdsOf(db'.goals) \subseteq AchievedIn(db'.goals)
        /\ AchievedIn(goals) \cap IdsOf(goals') \subseteq AchievedIn(goals')
        /\ \A i \in 1..Len(db'.goals) :
             db'.goals[i].status \in {"active", "achieved"}]_vars

\* A goal of 95 kg was achieved; 300 kg was then logged and the page
\* refreshed: the goal is still persisted and shown as achieved.
C26_Witness ==
  /\ Len(goals) > 0
  /\ goals[1].status = "achieved" /\ goals[1].target_weight_kg = R(95)
  /\ db.goals[1].status = "achieved"
  /\ latestWeight = R(300)
  /\ isAchieved(goals[1])

=============================================================================
